---- MODULE Spec2Model ----
(***************************************************************************)
(* The wagering ledger of the horse-race game (server.js over SQLite).     *)
(*                                                                         *)
(* The server is a single Node process and every statement runs through    *)
(* better-sqlite3, which is synchronous: a route handler runs from its     *)
(* first line to its response without yielding.  Concurrent HTTP requests  *)
(* are therefore served one whole handler after the other, in any order,   *)
(* and each handler is one action of the model.                            *)
(*                                                                         *)
(* State: the tables players, races, bets and payouts, each a sequence of  *)
(* rows whose index is the row's INTEGER PRIMARY KEY (rows are never       *)
(* deleted), and `last`, the response sent last with the route it answers. *)
(* race_horses holds, for every race, the eight slots 0..7 with a random   *)
(* glyph each; the rows are immutable and no handler reads the glyph back  *)
(* into a decision, so the table is represented by NumHorses.              *)
(***************************************************************************)
EXTENDS Integers, Sequences, FiniteSets, TLC

VARIABLES players, races, bets, payouts, last

\* The race simulation of the game client (game.jsx): the physics state
\* st = {pos, vel, shield, cool, fxLabel} of runAnimation, one value per
\* entrant 0 .. N-1 (fxLabel is the label of the entrant's last event), the
\* label maybeEventFor returned for each entrant in the last tick (ev),
\* whether the interval of the tick loop is set (frame), the
\* winner found (winnerIdx), the track length of the race run (track) and
\* the number of ticks the loop has run (ticks, which the code does not keep).
VARIABLES pos, vel, shield, cool, fxLabel, ev, frame, winnerIdx, track, ticks

\* The race cycle of the game client (game.jsx), a record: stage (the state
\* stage), active (the flag of the mount effect), running
\* (runningRef.current), countdown (the state countdown, the seconds shown),
\* countdownTimersRef (the ids of the interval and of the timeout of the
\* countdown, 0 for null), timers (the interval and the timeouts of the
\* countdowns that window holds: id, tick for the interval, the completion
\* of the timeout), recovery (recoveryRef.current: "none", a timer that
\* waits, or a timer whose callback is running), delay (the delay of that
\* timer), flow
\* and step (the async function that waits for a response, and the request
\* it waits for), race and horses (the states race and horses, as the id of
\* the race and the number of its entrants), resolvedWinner (the winner the
\* settlement is requested with).
VARIABLES orch

\* The connection of the chat bridge (chat-bridge.js), a record:
\* connectingPump, reconnectTimer (whether it is set), backoff, link (what
\* the chat transport is doing with the client last created), connects (the
\* calls of connectPump that wait for chat.connect()), timers (the
\* timeouts of scheduleReconnect that are pending) and requests (the requests
\* handleCommand has sent to the ledger, which has yet to handle them).
VARIABLES chat

ledger == <<players, races, bets, payouts>>
engine == <<pos, vel, shield, cool, fxLabel, ev, frame, winnerIdx, track, ticks>>
clients == <<engine, orch, chat>>
vars == <<players, races, bets, payouts, last, engine, orch, chat>>

(***************************************************************************)
(* Bounds of the model.                                                    *)
(***************************************************************************)
MaxRaces == 2
MaxBets == 2
MaxSettleBets == 3
MaxPodiumBets == 3
MaxEntrants == 2
MaxTrackLen == 1

(***************************************************************************)
(* Program constants.                                                      *)
(***************************************************************************)
StartBalance == 1000
HOUSE_CUT_TENTHS == 1
NumHorses == 8
TrackLenMin == 90
MaxWinnerSlot == 7
MantissaBits == 52

(***************************************************************************)
(* JSON values of a request body.  A number is [int, n]: int says whether  *)
(* Number.isInteger holds of it, n is its value when it does (and its      *)
(* floor otherwise).                                                       *)
(***************************************************************************)
JsInt(n) == [int |-> TRUE, n |-> n]
JsFrac(n) == [int |-> FALSE, n |-> n]
NumberIsInteger(v) == v.int

Users == {"ann", "bob"}
NoUser == ""
Amounts == {25, 850}
Slots == {0, 1}
\* randInt(90, 150): no handler decides on the track length, one value stands
\* for the range
TrackLens == {TrackLenMin}

BetRequests ==
    [user : Users, horse : {JsInt(s) : s \in Slots}, amount : {JsInt(a) : a \in Amounts}]
    \cup [user : {"bob"}, horse : {JsInt(0)}, amount : {JsInt(1001)}]
    \cup [user : {"bob"}, horse : {JsInt(8)}, amount : {JsInt(25)}]
    \cup [user : {NoUser}, horse : {JsInt(0)}, amount : {JsInt(25)}]
    \cup [user : {"ann"}, horse : {JsInt(0)},
          amount : {JsInt(0), JsInt(-1), JsFrac(1)}]
    \cup [user : {"ann"}, horse : {JsFrac(0)}, amount : {JsInt(25)}]

Winners == {JsInt(0), JsInt(1), JsInt(8), JsInt(-1), JsFrac(0)}

(***************************************************************************)
(* Prepared statements.                                                    *)
(***************************************************************************)
RECURSIVE IndexOfName(_, _, _)
IndexOfName(ps, name, i) ==
    IF i > Len(ps) THEN 0
    ELSE IF ps[i].name = name THEN i
    ELSE IndexOfName(ps, name, i + 1)

\* SELECT * FROM players WHERE name=? : the row's id, 0 when there is none
findPlayer(ps, name) == IndexOfName(ps, name, 1)

\* getOrCreatePlayer replacing the row on conflict: the balance starts anew
getOrCreatePlayerReplace(ps, name) ==
    IF findPlayer(ps, name) # 0
    THEN [ps EXCEPT ![findPlayer(ps, name)].balance = StartBalance]
    ELSE Append(ps, [name |-> name, balance |-> StartBalance])

\* INSERT INTO players(name) ... ON CONFLICT(name) DO NOTHING
getOrCreatePlayer(ps, name) ==
    IF findPlayer(ps, name) # 0 THEN ps
    ELSE Append(ps, [name |-> name, balance |-> StartBalance])

\* INSERT INTO races(track_len,status,...) VALUES(?, 'bet', ...)
createRace(rs, trackLen) == Append(rs, [track_len |-> trackLen, status |-> "bet"])

RECURSIVE LatestWithStatus(_, _, _)
LatestWithStatus(rs, status, i) ==
    IF i = 0 THEN 0
    ELSE IF rs[i].status = status THEN i
    ELSE LatestWithStatus(rs, status, i - 1)

\* latestOpenRace without the lock of POST /race/start: a race still counts
\* as open once it is racing
latestOpenOrRacingRace(rs) ==
    LET active == {i \in 1 .. Len(rs) : rs[i].status \in {"bet", "racing"}}
    IN  IF active = {} THEN 0
        ELSE CHOOSE i \in active : \A j \in active : j <= i

\* SELECT * FROM races WHERE status='bet' ORDER BY id DESC LIMIT 1
latestOpenRace(rs) == LatestWithStatus(rs, "bet", Len(rs))

\* latestRacingRace without the status condition excluding settled races
latestRacingOrDoneRace(rs) ==
    LET run == {i \in 1 .. Len(rs) : rs[i].status \in {"racing", "done"}}
    IN  IF run = {} THEN 0
        ELSE CHOOSE i \in run : \A j \in run : j <= i

\* SELECT * FROM races WHERE status='racing' ORDER BY id DESC LIMIT 1
latestRacingRace(rs) == LatestWithStatus(rs, "racing", Len(rs))

\* betStmt binding the first race instead of the race selected
betStmtFirstRace(bs, raceId, playerId, horse, amount) ==
    Append(bs, [race_id |-> 1, player_id |-> playerId,
                horse_slot |-> horse, amount |-> amount])

\* INSERT INTO bets(race_id,player_id,horse_slot,amount)
betStmt(bs, raceId, playerId, horse, amount) ==
    Append(bs, [race_id |-> raceId, player_id |-> playerId,
                horse_slot |-> horse, amount |-> amount])

\* decBalance without its condition on the balance
decBalanceUnguarded(ps, amount, id) ==
    [players |-> [ps EXCEPT ![id].balance = @ - amount], changes |-> 1]

\* decBalance with the condition balance > 0 in place of balance >= amount
decBalancePositive(ps, amount, id) ==
    IF ps[id].balance > 0
    THEN [players |-> [ps EXCEPT ![id].balance = @ - amount], changes |-> 1]
    ELSE [players |-> ps, changes |-> 0]

\* UPDATE players SET balance=balance-? WHERE id=? AND balance>=? ;
\* the rows after the statement and the number of rows it changed
decBalance(ps, amount, id) ==
    IF ps[id].balance >= amount
    THEN [players |-> [ps EXCEPT ![id].balance = @ - amount], changes |-> 1]
    ELSE [players |-> ps, changes |-> 0]

\* SELECT * FROM bets WHERE race_id=?
listBets(bs, raceId) == SelectSeq(bs, LAMBDA b : b.race_id = raceId)

\* UPDATE races SET status=? WHERE id=?
setRaceStatus(rs, status, id) == [rs EXCEPT ![id].status = status]

\* startRaceTs without its WHERE id=?: every race is set to racing
startRaceTsEvery(rs, id) == [i \in 1 .. Len(rs) |-> [rs[i] EXCEPT !.status = "racing"]]

\* UPDATE races SET status='racing', started_at=... WHERE id=?
startRaceTs(rs, id) == [rs EXCEPT ![id].status = "racing"]

\* UPDATE races SET status='payout', finished_at=... WHERE id=?
finishRaceTs(rs, id) == [rs EXCEPT ![id].status = "payout"]

\* UPDATE players SET balance=balance+? WHERE id=?
creditStmt(ps, amount, id) == [ps EXCEPT ![id].balance = @ + amount]

\* INSERT INTO payouts(race_id,player_id,amount)
insertPayout(pys, raceId, playerId, amount) ==
    Append(pys, [race_id |-> raceId, player_id |-> playerId, amount |-> amount])

(***************************************************************************)
(* Arithmetic of the settlement.  JavaScript numbers are IEEE-754 doubles. *)
(***************************************************************************)
RECURSIVE Pow2(_)
Pow2(n) == IF n = 0 THEN 1 ELSE 2 * Pow2(n - 1)

\* 2^s mod w
RECURSIVE PowMod2(_, _)
PowMod2(s, w) == IF s = 0 THEN 1 % w ELSE (2 * PowMod2(s - 1, w)) % w

\* the least n with a * 2^n >= w
RECURSIVE BinExp(_, _, _)
BinExp(a, w, n) == IF a * Pow2(n) >= w THEN n ELSE BinExp(a, w, n + 1)

\* the least n with 2^n >= k
RECURSIVE CeilLog2(_, _)
CeilLog2(k, n) == IF Pow2(n) >= k THEN n ELSE CeilLog2(k, n + 1)

\* afterHouse without the house cut: the whole pool is paid out
AfterHouseNoCut(totalPool) == totalPool

\* a settlement that pays out more than the pool
AfterHouseBonus(totalPool) == (totalPool * (10 + HOUSE_CUT_TENTHS)) \div 10

\* Math.floor(totalPool * (1 - HOUSE_CUT)) with HOUSE_CUT = 0.1.  In doubles
\* 1 - 0.1 is the double nearest 0.9, which lies above 0.9 by less than
\* half an ulp, so the product never falls below an integer it should
\* reach and the floor is that of the exact 9 * totalPool / 10.
AfterHouse(totalPool) == (totalPool * (10 - HOUSE_CUT_TENTHS)) \div 10

\* the share rounded up
FloorShareCeil(amount, onWinner, afterHouse) ==
    (amount * afterHouse + onWinner - 1) \div onWinner

\* Math.floor((amount / onWinner) * afterHouse), 1 <= amount <= onWinner.
\* The quotient is rounded to 53 significant bits before it is multiplied.
\* When onWinner does not divide amount * afterHouse the exact product is
\* at least 1/onWinner away from an integer and the two roundings cannot
\* move the floor.  When it does, the exact product is an integer k and
\* the floor is k - 1 exactly when the quotient was rounded down (r is the
\* remainder left by the rounding, 0 < 2r < onWinner) by so much that the
\* product rounds to a double below k: 4 * afterHouse * r >
\* onWinner * 2^(n + pe), n and pe the binary exponents of quotient and k.
FloorShare(amount, onWinner, afterHouse) ==
    LET k == (amount * afterHouse) \div onWinner
        n == BinExp(amount, onWinner, 0)
        r == (amount * PowMod2(MantissaBits + n, onWinner)) % onWinner
        pe == CeilLog2(k, 0)
        x == 4 * afterHouse * r
        y == Pow2(n + pe)
    IN  IF (amount * afterHouse) % onWinner # 0 \/ afterHouse = 0 THEN k
        ELSE IF r = 0 \/ 2 * r > onWinner THEN k
        ELSE IF x \div onWinner > y \/ (x \div onWinner = y /\ x % onWinner > 0)
             THEN k - 1
             ELSE k

RECURSIVE SumAmounts(_, _)
SumAmounts(bs, i) == IF i > Len(bs) THEN 0 ELSE bs[i].amount + SumAmounts(bs, i + 1)

\* bets.reduce((a, b) => a + b.amount, 0)
totalPoolOf(bs) == SumAmounts(bs, 1)

\* onWinnerBets without the filter: every bet of the race counts as winning
onWinnerBetsUnfiltered(bs, winner) == bs

\* bets.filter((b) => b.horse_slot === winner)
onWinnerBets(bs, winner) == SelectSeq(bs, LAMBDA b : b.horse_slot = winner)

RECURSIVE IndexOfPlayer(_, _, _)
IndexOfPlayer(es, pid, i) ==
    IF i > Len(es) THEN 0
    ELSE IF es[i].player_id = pid THEN i
    ELSE IndexOfPlayer(es, pid, i + 1)

\* earnings.set(b.player_id, (earnings.get(b.player_id) || 0) + share):
\* a Map keeps its keys in the order of their first insertion
earningsSet(es, pid, share) ==
    LET i == IndexOfPlayer(es, pid, 1)
    IN  IF i = 0 THEN Append(es, [player_id |-> pid, amount |-> share])
        ELSE [es EXCEPT ![i].amount = @ + share]

\* the forEach over the winning bets, from bet i on
RECURSIVE EarningsFrom(_, _, _, _, _)
EarningsFrom(wbs, i, onWinner, afterHouse, es) ==
    IF i > Len(wbs) THEN es
    ELSE EarningsFrom(wbs, i + 1, onWinner, afterHouse,
             earningsSet(es, wbs[i].player_id,
                         FloorShare(wbs[i].amount, onWinner, afterHouse)))

\* the Map earnings as the sequence of its entries
earnings(bs, winner, afterHouse) ==
    LET wbs == onWinnerBets(bs, winner)
        onWinner == totalPoolOf(wbs)
    IN  IF onWinner > 0 THEN EarningsFrom(wbs, 1, onWinner, afterHouse, <<>>)
        ELSE <<>>

\* Array.prototype.sort((a, b) => b.amount - a.amount): stable, descending
RECURSIVE InsertDesc(_, _)
InsertDesc(sorted, e) ==
    IF sorted = <<>> THEN <<e>>
    ELSE IF Head(sorted).amount >= e.amount
         THEN <<Head(sorted)>> \o InsertDesc(Tail(sorted), e)
         ELSE <<e>> \o sorted

\* SortDesc that sorts nothing: the entries stay in the order of the Map
SortDescUnsorted(xs, i, acc) == xs

RECURSIVE SortDesc(_, _, _)
SortDesc(xs, i, acc) ==
    IF i > Len(xs) THEN acc ELSE SortDesc(xs, i + 1, InsertDesc(acc, xs[i]))

\* Array.from(earnings, ([pid, amt]) => ({name, amount: amt})).sort(...)
winnersOf(es, ps) ==
    SortDesc([i \in 1 .. Len(es) |-> [name |-> ps[es[i].player_id].name,
                                      amount |-> es[i].amount]], 1, <<>>)

\* for (const [player_id, amount] of earnings) creditStmt.run(...)
RECURSIVE CreditAll(_, _, _)
CreditAll(ps, es, i) ==
    IF i > Len(es) THEN ps
    ELSE CreditAll(creditStmt(ps, es[i].amount, es[i].player_id), es, i + 1)

\* for (const [player_id, amount] of earnings) insertPayout.run(...)
RECURSIVE PayAll(_, _, _, _)
PayAll(pys, raceId, es, i) ==
    IF i > Len(es) THEN pys
    ELSE PayAll(insertPayout(pys, raceId, es[i].player_id, es[i].amount),
                raceId, es, i + 1)

(***************************************************************************)
(* Responses.  `last` is the JSON sent back last and the route (op) that   *)
(* sent it, for POST /bet with the user and amount of the request body; a  *)
(* field a response does not carry holds the default below.                *)
(***************************************************************************)
NoResult == [totalPool |-> 0, afterHouse |-> 0, onWinner |-> 0, winners |-> <<>>]

Response(op) ==
    [op |-> op, user |-> NoUser, amount |-> JsInt(0),
     ok |-> TRUE, error |-> "", name |-> NoUser, balance |-> 0,
     race_id |-> 0, track_len |-> 0, horses |-> <<>>, result |-> NoResult,
     rows |-> <<>>]

Failure(op, error) == [Response(op) EXCEPT !.ok = FALSE, !.error = error]

\* String.prototype.trim on the query values of the model: a name carries
\* no blanks of its own, and a value of blanks only trims to the empty string
BlankUsers == {NoUser, "  "}
trim(user) == IF user \in BlankUsers THEN NoUser ELSE user

(***************************************************************************)
(* POST /bet                                                               *)
(***************************************************************************)
\* if (!user || !Number.isInteger(horse) || !Number.isInteger(amount) || amount <= 0)
BadBetInput(req) ==
    \/ req.user = NoUser
    \/ ~NumberIsInteger(req.horse)
    \/ ~NumberIsInteger(req.amount)
    \/ req.amount.n <= 0

\* BetTransaction with a throw that leaves the player row inserted
BetTransactionNoRollback(ps, bs, raceId, user, horse, amount) ==
    LET ps1 == getOrCreatePlayer(ps, user)
        pid == findPlayer(ps1, user)
        dec == decBalance(ps1, amount, pid)
    IN  IF dec.changes = 0
        THEN [ok |-> FALSE, error |-> "insufficient_balance",
              players |-> ps1, bets |-> bs, balance |-> 0]
        ELSE [ok |-> TRUE, error |-> "",
              players |-> dec.players,
              bets |-> betStmt(bs, raceId, pid, horse, amount),
              balance |-> dec.players[pid].balance]

\* db.transaction(() => {...}) of POST /bet: the tables after it and what it
\* returned or threw.  A throw rolls every statement of the transaction back.
BetTransaction(ps, bs, raceId, user, horse, amount) ==
    LET ps1 == getOrCreatePlayer(ps, user)
        pid == findPlayer(ps1, user)
        dec == decBalance(ps1, amount, pid)
    IN  IF dec.changes = 0
        THEN [ok |-> FALSE, error |-> "insufficient_balance",
              players |-> ps, bets |-> bs, balance |-> 0]
        ELSE [ok |-> TRUE, error |-> "",
              players |-> dec.players,
              bets |-> betStmt(bs, raceId, pid, horse, amount),
              balance |-> dec.players[pid].balance]

\* BetOutcome without the check amount <= 0
BetOutcomeUnvalidated(ps, rs, bs, req) ==
    LET race == latestOpenRace(rs)
    IN  IF req.user = NoUser \/ ~NumberIsInteger(req.horse) \/ ~NumberIsInteger(req.amount)
        THEN [ok |-> FALSE, error |-> "bad_input", players |-> ps, bets |-> bs, balance |-> 0]
        ELSE IF race = 0
        THEN [ok |-> FALSE, error |-> "no_open_race", players |-> ps, bets |-> bs, balance |-> 0]
        ELSE BetTransaction(ps, bs, race, req.user, req.horse.n, req.amount.n)

\* the handler of POST /bet on the tables ps, rs, bs
BetOutcome(ps, rs, bs, req) ==
    LET race == latestOpenRace(rs)
    IN  IF BadBetInput(req)
        THEN [ok |-> FALSE, error |-> "bad_input", players |-> ps, bets |-> bs, balance |-> 0]
        ELSE IF race = 0
        THEN [ok |-> FALSE, error |-> "no_open_race", players |-> ps, bets |-> bs, balance |-> 0]
        ELSE BetTransaction(ps, bs, race, req.user, req.horse.n, req.amount.n)

PostBet(req) ==
    LET out == BetOutcome(players, races, bets, req)
    IN  /\ out.ok => Len(bets) < MaxBets
        /\ players' = out.players
        /\ bets' = out.bets
        /\ last' = [Response("bet") EXCEPT !.user = req.user, !.amount = req.amount,
                       !.ok = out.ok, !.error = out.error, !.balance = out.balance]
        /\ UNCHANGED <<races, payouts>>

(***************************************************************************)
(* POST /race/new, GET /race/open, POST /race/start                        *)
(***************************************************************************)
\* randInt(90, 150) draws the track length; pick8 draws the glyphs
PostRaceNew(trackLen) ==
    /\ Len(races) < MaxRaces
    /\ races' = createRace(races, trackLen)
    /\ last' = [Response("race/new") EXCEPT !.race_id = Len(races) + 1]
    /\ UNCHANGED <<players, bets, payouts>>

GetRaceOpen ==
    LET race == latestOpenRace(races)
    IN  /\ last' = IF race = 0 THEN Response("race/open")
                   ELSE [Response("race/open") EXCEPT !.race_id = race,
                            !.track_len = races[race].track_len,
                            !.horses = [i \in 1 .. NumHorses |-> i - 1]]
        /\ UNCHANGED ledger

PostRaceStart ==
    LET race == latestOpenRace(races)
    IN  IF race = 0
        THEN /\ last' = Failure("race/start", "no_open_race")
             /\ UNCHANGED ledger
        ELSE /\ races' = startRaceTs(races, race)
             /\ last' = [Response("race/start") EXCEPT !.race_id = race]
             /\ UNCHANGED <<players, bets, payouts>>

(***************************************************************************)
(* POST /race/finish                                                       *)
(***************************************************************************)
\* BadWinner without the bound from above: only winner < 0 is refused
BadWinnerNoUpperBound(winner) ==
    \/ ~NumberIsInteger(winner)
    \/ winner.n < 0

\* if (!Number.isInteger(winner) || winner < 0 || winner > 7)
BadWinner(winner) ==
    \/ ~NumberIsInteger(winner)
    \/ winner.n < 0
    \/ winner.n > MaxWinnerSlot

\* FinishTransaction without its two status updates
FinishTransactionNoDone(ps, rs, bs, pys, raceId, winner) ==
    LET rs1 == rs
        raceBets == listBets(bs, raceId)
        totalPool == totalPoolOf(raceBets)
        afterHouse == AfterHouse(totalPool)
        onWinner == totalPoolOf(onWinnerBets(raceBets, winner))
        es == earnings(raceBets, winner, afterHouse)
    IN  [players |-> CreditAll(ps, es, 1),
         payouts |-> PayAll(pys, raceId, es, 1),
         races |-> rs1,
         result |-> [totalPool |-> totalPool, afterHouse |-> afterHouse,
                     onWinner |-> onWinner, winners |-> winnersOf(es, ps)]]

\* db.transaction(() => {...}) of POST /race/finish on race raceId
FinishTransaction(ps, rs, bs, pys, raceId, winner) ==
    LET rs1 == finishRaceTs(rs, raceId)
        raceBets == listBets(bs, raceId)
        totalPool == totalPoolOf(raceBets)
        afterHouse == AfterHouse(totalPool)
        onWinner == totalPoolOf(onWinnerBets(raceBets, winner))
        es == earnings(raceBets, winner, afterHouse)
    IN  [players |-> CreditAll(ps, es, 1),
         payouts |-> PayAll(pys, raceId, es, 1),
         races |-> setRaceStatus(rs1, "done", raceId),
         result |-> [totalPool |-> totalPool, afterHouse |-> afterHouse,
                     onWinner |-> onWinner, winners |-> winnersOf(es, ps)]]

PostRaceFinish(winner) ==
    LET race == latestRacingRace(races)
    IN  IF BadWinner(winner)
        THEN /\ last' = Failure("race/finish", "bad_winner")
             /\ UNCHANGED ledger
        ELSE IF race = 0
        THEN /\ last' = Failure("race/finish", "no_racing_race")
             /\ UNCHANGED ledger
        ELSE LET out == FinishTransaction(players, races, bets, payouts, race, winner.n)
             IN  /\ players' = out.players
                 /\ races' = out.races
                 /\ payouts' = out.payouts
                 /\ last' = [Response("race/finish") EXCEPT !.race_id = race,
                                !.result = out.result]
                 /\ UNCHANGED bets

(***************************************************************************)
(* GET /leaderboard, GET /balance                                          *)
(***************************************************************************)
\* SELECT name, balance FROM players ORDER BY balance DESC LIMIT 100 ;
\* rows of equal balance come in the order of their ids
RECURSIVE InsertByBalance(_, _)
InsertByBalance(sorted, e) ==
    IF sorted = <<>> THEN <<e>>
    ELSE IF Head(sorted).balance >= e.balance
         THEN <<Head(sorted)>> \o InsertByBalance(Tail(sorted), e)
         ELSE <<e>> \o sorted

\* LIMIT 100
LeaderboardLimit == 100

\* the rows of ps from row i on sorted into acc, of which the statement
\* answers the first LeaderboardLimit
RECURSIVE ByBalanceDesc(_, _, _)
ByBalanceDesc(ps, i, acc) ==
    IF i > Len(ps)
    THEN SubSeq(acc, 1, IF Len(acc) < LeaderboardLimit THEN Len(acc)
                        ELSE LeaderboardLimit)
    ELSE ByBalanceDesc(ps, i + 1, InsertByBalance(acc, ps[i]))

GetLeaderboard ==
    /\ last' = [Response("leaderboard") EXCEPT !.rows = ByBalanceDesc(players, 1, <<>>)]
    /\ UNCHANGED ledger

GetBalance(query) ==
    LET user == trim(query)
    IN  IF user = NoUser
        THEN /\ last' = Failure("balance", "missing_user")
             /\ UNCHANGED ledger
        ELSE LET ps1 == getOrCreatePlayer(players, user)
             IN  /\ players' = ps1
                 /\ last' = [Response("balance") EXCEPT !.name = user,
                                !.balance = ps1[findPlayer(ps1, user)].balance]
                 /\ UNCHANGED <<races, bets, payouts>>

(***************************************************************************)
(* The ledger under any interleaving of requests.                          *)
(***************************************************************************)
\* no simulation has been started: the refs and the state of the component
\* as useRef and useState set them
NoWinner == -1

\* useState(null) of countdown
NoCountdown == -1

\* const r = await fetch(...) before the ledger has answered
NoAnswer == Response("none")

\* the component has mounted: the stage is "loading" and the mount effect has
\* called ensureRace, which waits for GET /race/open
OrchMounted ==
    [stage |-> "loading", active |-> TRUE, running |-> FALSE,
     countdown |-> NoCountdown,
     countdownTimersRef |-> [tick |-> 0, stage |-> 0], timers |-> {},
     recovery |-> "none", delay |-> 0, flow |-> "boot", step |-> "open",
     race |-> 0, horses |-> 0, resolvedWinner |-> NoWinner,
     answer |-> NoAnswer]

\* the bridge has started: connectPump has set connectingPump and waits for
\* chat.connect(); handleCommand has sent no request
ChatStarted ==
    [connectingPump |-> TRUE, reconnectTimer |-> FALSE, backoff |-> 0,
     link |-> "connecting", connects |-> 1, timers |-> 0, requests |-> <<>>]

EngineIdle ==
    /\ pos = <<>> /\ vel = <<>> /\ shield = <<>> /\ cool = <<>>
    /\ fxLabel = <<>> /\ ev = <<>>
    /\ frame = FALSE
    /\ winnerIdx = NoWinner
    /\ track = 0
    /\ ticks = 0

\* the clients of the ledger as they start
ClientsIdle ==
    /\ EngineIdle
    /\ orch = OrchMounted
    /\ chat = ChatStarted

Init ==
    /\ players = <<>>
    /\ races = <<>>
    /\ bets = <<>>
    /\ payouts = <<>>
    /\ last = Response("none")
    /\ ClientsIdle

Next ==
    \/ \E trackLen \in TrackLens : PostRaceNew(trackLen) /\ UNCHANGED clients
    \/ GetRaceOpen /\ UNCHANGED clients
    \/ \E req \in BetRequests : PostBet(req) /\ UNCHANGED clients
    \/ PostRaceStart /\ UNCHANGED clients
    \/ \E winner \in Winners : PostRaceFinish(winner) /\ UNCHANGED clients
    \/ GetLeaderboard /\ UNCHANGED clients
    \/ \E query \in Users \cup BlankUsers : GetBalance(query) /\ UNCHANGED clients

Spec == Init /\ [][Next]_vars

(***************************************************************************)
(* The settlement of one race over the bets it can hold.  The initial      *)
(* states are the ledgers left by POST /race/new, up to MaxSettleBets      *)
(* requests POST /bet and POST /race/start, built with the handlers'       *)
(* own operators; the amounts include pairs whose share is an integer that *)
(* the double arithmetic of the settlement misses (30 of 880 over 792).    *)
(***************************************************************************)
SettleAmounts == {25, 30, 100, 850}

SettleRequests ==
    [user : Users, horse : {JsInt(0), JsInt(1)},
     amount : {JsInt(a) : a \in SettleAmounts}]

\* the tables after the requests reqs[i], reqs[i+1], ... were served in turn
RECURSIVE PlaceAll(_, _, _, _, _)
PlaceAll(reqs, i, ps, rs, bs) ==
    IF i > Len(reqs) THEN [players |-> ps, bets |-> bs]
    ELSE LET out == BetOutcome(ps, rs, bs, reqs[i])
         IN  PlaceAll(reqs, i + 1, out.players, rs, out.bets)

InitSettle ==
    \E trackLen \in TrackLens :
    \E n \in 0 .. MaxSettleBets :
    \E reqs \in [1 .. n -> SettleRequests] :
        LET rs == createRace(<<>>, trackLen)
            placed == PlaceAll(reqs, 1, <<>>, rs, <<>>)
        IN  /\ players = placed.players
            /\ bets = placed.bets
            /\ races = startRaceTs(rs, latestOpenRace(rs))
            /\ payouts = <<>>
            /\ last = [Response("race/start") EXCEPT !.race_id = latestOpenRace(rs)]
            /\ ClientsIdle

NextSettle == \E winner \in Winners : PostRaceFinish(winner) /\ UNCHANGED clients

SpecSettle == InitSettle /\ [][NextSettle]_vars

(***************************************************************************)
(* The settlement of one race among three players, for the order of the    *)
(* winners in the summary: the ledgers left by POST /race/new, up to       *)
(* MaxPodiumBets requests POST /bet and POST /race/start.                  *)
(***************************************************************************)
PodiumUsers == Users \cup {"cyd"}

PodiumAmounts == {30, 100}

PodiumRequests ==
    [user : PodiumUsers, horse : {JsInt(0), JsInt(1)},
     amount : {JsInt(a) : a \in PodiumAmounts}]

InitPodium ==
    \E trackLen \in TrackLens :
    \E n \in 0 .. MaxPodiumBets :
    \E reqs \in [1 .. n -> PodiumRequests] :
        LET rs == createRace(<<>>, trackLen)
            placed == PlaceAll(reqs, 1, <<>>, rs, <<>>)
        IN  /\ players = placed.players
            /\ bets = placed.bets
            /\ races = startRaceTs(rs, latestOpenRace(rs))
            /\ payouts = <<>>
            /\ last = [Response("race/start") EXCEPT !.race_id = latestOpenRace(rs)]
            /\ ClientsIdle

SpecPodium == InitPodium /\ [][NextSettle]_vars

(***************************************************************************)
(* The race simulation engine (game.jsx, runAnimation and maybeEventFor).  *)
(*                                                                         *)
(* Positions and velocities are IEEE-754 doubles and the race is decided   *)
(* on them as the doubles come out: 3.5999999999999996 + 0.4 is            *)
(* 3.9999999999999996, short of a track of 4.  A double d is held exactly, *)
(* as the integer d * 2^66 written in four digits <<i, a, b, c>> of base   *)
(* Limb: d = i + a / Limb + b / Limb^2 + c / Limb^3 with 0 <= a, b, c <    *)
(* Limb, so that i is the floor of d (below 0 for d < 0).  Every double    *)
(* the engine computes on tracks of up to 150 from draws in thousandths    *)
(* is one of these: a multiple of 2^-66 below 2^9 in size.  The sums,      *)
(* differences and products are the exact ones rounded to 53 significant   *)
(* bits, to the nearest, ties to even.                                     *)
(*                                                                         *)
(* A literal of the source is named by its value in hundredths (0.45 is    *)
(* 45, and Hundredths[45] is its double), a value of Math.random() by its  *)
(* value in thousandths: the draw k stands for the double nearest          *)
(* k / 1000, 0 <= k < RandomScale.  Entrants are numbered from 0 as in the *)
(* source.                                                                 *)
(***************************************************************************)
Scale == 100
RandomScale == 1000

Limb == 2^22
HalfLimb == 2^11

\* the digits of a number whose digits d are out of range, carried
Norm(d) ==
    LET b1 == d[3] + d[4] \div Limb
        a1 == d[2] + b1 \div Limb
    IN  <<d[1] + a1 \div Limb, a1 % Limb, b1 % Limb, d[4] % Limb>>

\* -x
Neg(x) == Norm(<<-x[1], -x[2], -x[3], -x[4]>>)

\* x < y
Less(x, y) ==
    \/ x[1] < y[1]
    \/ /\ x[1] = y[1]
       /\ \/ x[2] < y[2]
          \/ /\ x[2] = y[2]
             /\ \/ x[3] < y[3]
                \/ x[3] = y[3] /\ x[4] < y[4]

\* the number of binary digits of k >= 0
RECURSIVE BitLen(_)
BitLen(k) == IF k = 0 THEN 0 ELSE 1 + BitLen(k \div 2)

\* the double nearest to the number whose digits down to 2^-66 are d, sticky
\* telling whether it has digits below: the s low bits that do not fit 53
\* significant bits are rounded off, to the even neighbour on a tie
RECURSIVE Round53(_, _)
Round53(d, sticky) ==
    IF d[1] < 0 THEN Neg(Round53(Neg(d), sticky))
    ELSE LET s == IF d[1] > 0 THEN BitLen(d[1]) + 13 ELSE BitLen(d[2]) - 9
         IN  IF s <= 0 THEN d
             ELSE LET p == 2^s
                      low == d[4] % p
                      odd == IF p < Limb THEN (d[4] \div p) % 2 = 1
                             ELSE d[3] % 2 = 1
                      up == \/ 2 * low > p
                            \/ 2 * low = p /\ (sticky \/ odd)
                  IN  Norm(<<d[1], d[2], d[3],
                             d[4] - low + (IF up THEN p ELSE 0)>>)

\* x + y of doubles; x - y is x + (-y), the negation being exact
Add(x, y) ==
    Round53(Norm(<<x[1] + y[1], x[2] + y[2], x[3] + y[3], x[4] + y[4]>>), FALSE)

\* the first m digits in base HalfLimb of r / den (0 <= r < den), followed by
\* the remainder left
RECURSIVE Digits(_, _, _)
Digits(r, den, m) ==
    IF m = 0 THEN <<r>>
    ELSE <<(r * HalfLimb) \div den>> \o Digits((r * HalfLimb) % den, den, m - 1)

\* the double a decimal literal denotes: the one nearest k / den
RECURSIVE NearestDouble(_, _)
NearestDouble(k, den) ==
    IF k < 0 THEN Neg(NearestDouble(-k, den))
    ELSE LET ds == Digits(k % den, den, 6)
         IN  Round53(<<k \div den, ds[1] * HalfLimb + ds[2],
                       ds[3] * HalfLimb + ds[4], ds[5] * HalfLimb + ds[6]>>,
                     ds[7] # 0)

\* the digits of d in base HalfLimb: that of 1, then those of 2^-11 to 2^-66
Halves(d) ==
    <<d[1], d[2] \div HalfLimb, d[2] % HalfLimb, d[3] \div HalfLimb,
      d[3] % HalfLimb, d[4] \div HalfLimb, d[4] % HalfLimb>>

\* the sum of the products xs[j] * ys[l] of the digits that weigh
\* 2^(-11 (m - 1)) together, from digit j of xs on
RECURSIVE Conv(_, _, _, _)
Conv(xs, ys, m, j) ==
    IF j > Len(xs) THEN 0
    ELSE (IF m - j + 1 \in DOMAIN ys THEN xs[j] * ys[m - j + 1] ELSE 0)
         + Conv(xs, ys, m, j + 1)

\* the digits in base HalfLimb of the product of xs and ys down to digit m,
\* with the carry c of the digits below
RECURSIVE Carry(_, _, _, _)
Carry(xs, ys, m, c) ==
    LET t == Conv(xs, ys, m, 1) + c
    IN  IF m = 1 THEN <<t>>
        ELSE Carry(xs, ys, m - 1, t \div HalfLimb) \o <<t % HalfLimb>>

\* x * y of doubles x >= 0 and y >= 0
Mul(x, y) ==
    LET d == Carry(Halves(x), Halves(y), 13, 0)
    IN  Round53(<<d[1], d[2] * HalfLimb + d[3], d[4] * HalfLimb + d[5],
                  d[6] * HalfLimb + d[7]>>,
                \E m \in 8 .. 13 : d[m] # 0)

\* the double of a whole number
Whole(k) == <<k, 0, 0, 0>>

BASE_VEL_MIN == 45
BASE_VEL_MAX == 85
ACCEL_MIN == -5
ACCEL_MAX == 9
MAX_VEL == 135
MIN_VEL == 25

EVENTS_CHANCE_PER_TICK == 35
EVENT_COOLDOWN_TICKS == 6
SHIELD_DURATION_TICKS == 4

BOOST_VEL == 55
GUST_VEL == 32
SLOW_VEL == 45
STUMBLE_VEL == 12
WARP_MIN == 100
WARP_MAX == 200
SURGE_MIN == 210
SURGE_MAX == 280

\* the doubles of the literals of the source, by their hundredths
Hundredths == [c \in ACCEL_MIN .. SURGE_MAX |-> NearestDouble(c, Scale)]

\* the doubles Math.random() returns, by their thousandths (and the doubles
\* of the literals with three decimals)
Thousandths == [k \in 0 .. RandomScale - 1 |-> NearestDouble(k, RandomScale)]

SHIELD_ICON == "shield"

\* the bands with their probability in thousandths
EVENT_BANDS ==
    << [key |-> "boost", label |-> "bolt", p |-> 220],
       [key |-> "slow", label |-> "snail", p |-> 180],
       [key |-> "gust", label |-> "dash", p |-> 150],
       [key |-> "stumble", label |-> "cross", p |-> 130],
       [key |-> "shield", label |-> SHIELD_ICON, p |-> 60],
       [key |-> "warp", label |-> "sparkles", p |-> 80],
       [key |-> "surge", label |-> "rocket", p |-> 80] >>

\* maybeEventFor returns null
NoLabel == "null"

\* Math.random() * (max - min) + min, for the doubles min and max and the
\* double r of Math.random()
rand(min, max, r) == Add(Mul(r, Add(max, Neg(min))), min)

\* rand(min, max) for every draw in thousandths, for the ranges (in
\* hundredths) the source calls it with
randOf ==
    [range \in {<<BASE_VEL_MIN, BASE_VEL_MAX>>, <<ACCEL_MIN, ACCEL_MAX>>,
                <<WARP_MIN, WARP_MAX>>, <<SURGE_MIN, SURGE_MAX>>} |->
        [k \in 0 .. RandomScale - 1 |->
            rand(Hundredths[range[1]], Hundredths[range[2]], Thousandths[k])]]

\* Math.max(a, Math.min(b, v))
clamp(v, a, b) ==
    LET m == IF Less(b, v) THEN b ELSE v
    IN  IF Less(m, a) THEN a ELSE m

\* the loop over EVENT_BANDS for the double roll: the index of the first band
\* with roll < band.p, the roll lowered by the p of every band passed over
\* (roll -= band.p, in doubles: 0.9 is left with 0.07999999999999996 for the
\* last band); 0 when none is left
RECURSIVE BandOf(_, _)
BandOf(roll, i) ==
    IF i > Len(EVENT_BANDS) THEN 0
    ELSE IF Less(roll, Thousandths[EVENT_BANDS[i].p]) THEN i
    ELSE BandOf(Add(roll, Neg(Thousandths[EVENT_BANDS[i].p])), i + 1)

\* the band of every draw in thousandths
bandOf == [k \in 0 .. RandomScale - 1 |-> BandOf(Thousandths[k], 1)]

\* a cooldown test that never holds
inCooldownNever(e) == FALSE

\* state.cool[index] > 0
inCooldown(e) == e.cool > 0

\* a shield test that never holds
shieldedNever(e) == FALSE

\* state.shield[index] > 0
shielded(e) == e.shield > 0

\* maybeEventFor(index, state) on the state of one entrant,
\* e = [pos, vel, shield, cool], with the draws d = [chance, roll, jump] of
\* its calls of Math.random; the result is the state left and the label
\* returned
maybeEventFor(e, d) ==
    IF inCooldown(e)
    THEN [e |-> [e EXCEPT !.cool = e.cool - 1], label |-> NoLabel]
    ELSE IF ~Less(Thousandths[d.chance], Thousandths[EVENTS_CHANCE_PER_TICK])
    THEN [e |-> e, label |-> NoLabel]
    ELSE LET b == bandOf[d.roll]
             key == IF b = 0 THEN "none" ELSE EVENT_BANDS[b].key
             c == [e EXCEPT !.cool = EVENT_COOLDOWN_TICKS]
         IN  CASE key = "none" -> [e |-> e, label |-> NoLabel]
               [] key = "boost" ->
                    [e |-> [c EXCEPT !.vel = clamp(Add(e.vel, Hundredths[BOOST_VEL]),
                                            Hundredths[MIN_VEL],
                                            Hundredths[MAX_VEL])],
                     label |-> EVENT_BANDS[b].label]
               [] key = "slow" ->
                    IF shielded(e)
                    THEN [e |-> c, label |-> SHIELD_ICON]
                    ELSE [e |-> [c EXCEPT !.vel =
                                    IF Less(Add(e.vel, Neg(Hundredths[SLOW_VEL])),
                                            Hundredths[MIN_VEL])
                                    THEN Hundredths[MIN_VEL]
                                    ELSE Add(e.vel, Neg(Hundredths[SLOW_VEL]))],
                          label |-> EVENT_BANDS[b].label]
               [] key = "gust" ->
                    [e |-> [c EXCEPT !.vel = clamp(Add(e.vel, Hundredths[GUST_VEL]),
                                            Hundredths[MIN_VEL],
                                            Hundredths[MAX_VEL])],
                     label |-> EVENT_BANDS[b].label]
               [] key = "stumble" ->
                    IF shielded(e)
                    THEN [e |-> c, label |-> SHIELD_ICON]
                    ELSE [e |-> [c EXCEPT !.vel = Hundredths[STUMBLE_VEL]],
                          label |-> EVENT_BANDS[b].label]
               [] key = "shield" ->
                    [e |-> [c EXCEPT !.shield = SHIELD_DURATION_TICKS],
                     label |-> EVENT_BANDS[b].label]
               [] key = "warp" ->
                    [e |-> [c EXCEPT !.pos =
                                    Add(e.pos, randOf[<<WARP_MIN, WARP_MAX>>][d.jump])],
                     label |-> EVENT_BANDS[b].label]
               [] key = "surge" ->
                    [e |-> [c EXCEPT !.pos =
                                    Add(e.pos, randOf[<<SURGE_MIN, SURGE_MAX>>][d.jump])],
                     label |-> EVENT_BANDS[b].label]

\* st.vel[i] = clamp(st.vel[i] + rand(ACCEL_MIN, ACCEL_MAX), MIN_VEL, MAX_VEL)
jitter(e, d) ==
    [e EXCEPT !.vel = clamp(Add(@, randOf[<<ACCEL_MIN, ACCEL_MAX>>][d.accel]),
                            Hundredths[MIN_VEL], Hundredths[MAX_VEL])]

\* if (st.shield[i] > 0) st.shield[i]--, on the result of maybeEventFor
decay(out) == [out EXCEPT !.e.shield = IF @ > 0 THEN @ - 1 ELSE @]

\* an advance without Math.min(st.pos[i], trackLen)
advanceUncapped(out, trackLen) == [out EXCEPT !.e.pos = Add(@, out.e.vel)]

\* st.pos[i] += st.vel[i]; st.pos[i] = Math.min(st.pos[i], trackLen)
advance(out, trackLen) ==
    [out EXCEPT !.e.pos = IF Less(Whole(trackLen), Add(@, out.e.vel))
                          THEN Whole(trackLen)
                          ELSE Add(@, out.e.vel)]

\* a loop body that advances without Math.min(st.pos[i], trackLen)
StepEntrantUncapped(e, d, trackLen) ==
    advanceUncapped(decay(maybeEventFor(jitter(e, d), d)), trackLen)

\* a step in which the shield does not decay
StepEntrantNoDecay(e, d, trackLen) ==
    advance(maybeEventFor(jitter(e, d), d), trackLen)

\* the body of the for loop of a tick for one entrant: jitter, event, shield
\* decay, advance
StepEntrant(e, d, trackLen) ==
    advance(decay(maybeEventFor(jitter(e, d), d)), trackLen)

\* a detection that takes the highest index at or past the track length
findLastIndex(ps, trackLen) ==
    LET past == {i \in DOMAIN ps : ~Less(ps[i], Whole(trackLen))}
    IN  IF past = {} THEN NoWinner
        ELSE CHOOSE i \in past : \A j \in past : i >= j

\* st.pos.findIndex((p) => p >= trackLen): the lowest such index, or -1
findIndex(ps, trackLen) ==
    LET past == {i \in DOMAIN ps : ~Less(ps[i], Whole(trackLen))}
    IN  IF past = {} THEN NoWinner
        ELSE CHOOSE i \in past : \A j \in past : i <= j

\* the draws of Math.random the model takes: for a velocity or a jump the
\* lower end and the middle of the range, for the chance of an event a value
\* below and one above EVENTS_CHANCE_PER_TICK, for the roll the middle of
\* every band and a value past the last band
BaseDraws == {0, 500}
AccelDraws == {0, 500}
RollDraws == {100, 300, 450, 600, 700, 780, 850, 950}
JumpDraws == {0, 500}
NoEventDraw == [chance |-> 500, roll |-> 0, jump |-> 0]

\* an entrant in cooldown draws nothing for an event (maybeEventFor returns
\* before Math.random): the model hands maybeEventFor the draws of a stumble
\* then, which the cooldown has to keep from firing
CooldownDraw == [chance |-> 0, roll |-> 600, jump |-> 0]

TickDraws ==
    LET events == {NoEventDraw}
                  \cup {[chance |-> 0, roll |-> r, jump |-> j] :
                          r \in RollDraws, j \in JumpDraws}
        used == {d \in events :
                    d.jump # 0 =>
                        /\ d.chance < EVENTS_CHANCE_PER_TICK
                        /\ bandOf[d.roll] # 0
                        /\ EVENT_BANDS[bandOf[d.roll]].key \in {"warp", "surge"}}
    IN  {[accel |-> a, chance |-> d.chance, roll |-> d.roll, jump |-> d.jump] :
            a \in AccelDraws, d \in used}

\* runAnimation up to setInterval, for a race of n entrants (horses.length)
\* on a track of trackLen (race.track_len), after startBettingPhase has
\* cleared the winner; beginRace calls it only while no race is running
RunAnimation(n, trackLen, base) ==
    /\ ~frame
    /\ pos' = [i \in 0 .. n - 1 |-> Whole(0)]
    /\ vel' = [i \in 0 .. n - 1 |-> randOf[<<BASE_VEL_MIN, BASE_VEL_MAX>>][base[i]]]
    /\ shield' = [i \in 0 .. n - 1 |-> 0]
    /\ cool' = [i \in 0 .. n - 1 |-> 0]
    /\ fxLabel' = [i \in 0 .. n - 1 |-> NoLabel]
    /\ ev' = [i \in 0 .. n - 1 |-> NoLabel]
    /\ frame' = TRUE
    /\ winnerIdx' = NoWinner
    /\ track' = trackLen
    /\ ticks' = 0

\* a callback that finds the winner and leaves the interval and the physics
\* state in place
TickKeepsInterval(ds) ==
    /\ frame
    /\ \A i \in DOMAIN pos :
          cool[i] > 0 => /\ ds[i].chance = CooldownDraw.chance
                         /\ ds[i].roll = CooldownDraw.roll
                         /\ ds[i].jump = CooldownDraw.jump
    /\ \E out \in {[i \in DOMAIN pos |->
                      StepEntrant([pos |-> pos[i], vel |-> vel[i],
                                   shield |-> shield[i], cool |-> cool[i]],
                                  ds[i], track)]} :
       \E found \in {findIndex([i \in DOMAIN pos |-> out[i].e.pos], track)} :
           /\ pos' = [i \in DOMAIN pos |-> out[i].e.pos]
           /\ ev' = [i \in DOMAIN pos |-> out[i].label]
           /\ ticks' = ticks + 1
           /\ track' = track
           /\ frame' = frame
           /\ winnerIdx' = IF found # NoWinner THEN found ELSE winnerIdx
           /\ vel' = [i \in DOMAIN pos |-> out[i].e.vel]
           /\ shield' = [i \in DOMAIN pos |-> out[i].e.shield]
           /\ cool' = [i \in DOMAIN pos |-> out[i].e.cool]
           /\ fxLabel' = [i \in DOMAIN pos |->
                            IF out[i].label # NoLabel THEN out[i].label
                            ELSE fxLabel[i]]

\* one run of the callback of setInterval, up to the detection of the
\* winner; ds[i] are the draws of entrant i, and an entrant in cooldown
\* draws for its jitter only (CooldownDraw stands for the rest).  When a winner is found the interval is
\* cleared and stateRef.current is set to null: the physics state is gone,
\* the positions published by setPositions stay
Tick(ds) ==
    /\ frame
    /\ \A i \in DOMAIN pos :
          cool[i] > 0 => /\ ds[i].chance = CooldownDraw.chance
                         /\ ds[i].roll = CooldownDraw.roll
                         /\ ds[i].jump = CooldownDraw.jump
    /\ \E out \in {[i \in DOMAIN pos |->
                      StepEntrant([pos |-> pos[i], vel |-> vel[i],
                                   shield |-> shield[i], cool |-> cool[i]],
                                  ds[i], track)]} :
       \E found \in {findIndex([i \in DOMAIN pos |-> out[i].e.pos], track)} :
           /\ pos' = [i \in DOMAIN pos |-> out[i].e.pos]
           /\ ev' = [i \in DOMAIN pos |-> out[i].label]
           /\ ticks' = ticks + 1
           /\ track' = track
           /\ IF found # NoWinner
              THEN /\ frame' = FALSE
                   /\ winnerIdx' = found
                   /\ vel' = <<>> /\ shield' = <<>> /\ cool' = <<>>
                   /\ fxLabel' = <<>>
              ELSE /\ frame' = frame
                   /\ winnerIdx' = winnerIdx
                   /\ vel' = [i \in DOMAIN pos |-> out[i].e.vel]
                   /\ shield' = [i \in DOMAIN pos |-> out[i].e.shield]
                   /\ cool' = [i \in DOMAIN pos |-> out[i].e.cool]
                   /\ fxLabel' = [i \in DOMAIN pos |->
                                    IF out[i].label # NoLabel THEN out[i].label
                                    ELSE fxLabel[i]]

NextRace ==
    \/ \E n \in 1 .. MaxEntrants : \E trackLen \in 1 .. MaxTrackLen :
       \E base \in [0 .. n - 1 -> BaseDraws] :
          RunAnimation(n, trackLen, base) /\ UNCHANGED <<ledger, last, orch, chat>>
    \/ \E ds \in [DOMAIN pos -> TickDraws] :
          Tick(ds) /\ UNCHANGED <<ledger, last, orch, chat>>

SpecRace == Init /\ [][NextRace]_vars

\* the race of one entrant on tracks long enough for an entrant to leave a
\* cooldown (and have a second event) before the finish
MaxLongTrackLen == 4

NextLongRace ==
    \/ \E trackLen \in 1 .. MaxLongTrackLen :
       \E base \in [0 .. 0 -> BaseDraws] :
          RunAnimation(1, trackLen, base) /\ UNCHANGED <<ledger, last, orch, chat>>
    \/ \E ds \in [DOMAIN pos -> TickDraws] :
          Tick(ds) /\ UNCHANGED <<ledger, last, orch, chat>>

SpecLongRace == Init /\ [][NextLongRace]_vars

\* maybeEventFor taken alone, on one entrant in any state of velocity,
\* shield and cooldown its parameters admit (also the ones the tick loop
\* never calls it in), called MaxEventCalls times with any draws
MaxEventCalls == 2

EventVels == {Hundredths[v] : v \in {MIN_VEL, BASE_VEL_MIN, BASE_VEL_MAX, MAX_VEL}}

InitEvent ==
    /\ players = <<>> /\ races = <<>> /\ bets = <<>> /\ payouts = <<>>
    /\ last = Response("none")
    /\ pos = [i \in {0} |-> Whole(0)]
    /\ vel \in [{0} -> EventVels]
    /\ shield \in [{0} -> 0 .. SHIELD_DURATION_TICKS - 1]
    /\ cool \in [{0} -> 0 .. EVENT_COOLDOWN_TICKS]
    /\ fxLabel = [i \in {0} |-> NoLabel]
    /\ ev = [i \in {0} |-> NoLabel]
    /\ frame = TRUE
    /\ winnerIdx = NoWinner
    /\ track = MaxLongTrackLen
    /\ ticks = 0
    /\ orch = OrchMounted
    /\ chat = ChatStarted

\* one call maybeEventFor(0, state) with the draws d; ticks counts the calls
MaybeEvent(d) ==
    /\ ticks < MaxEventCalls
    /\ \E out \in {maybeEventFor([pos |-> pos[0], vel |-> vel[0],
                                   shield |-> shield[0], cool |-> cool[0]], d)} :
          /\ pos' = [i \in {0} |-> out.e.pos]
          /\ vel' = [i \in {0} |-> out.e.vel]
          /\ shield' = [i \in {0} |-> out.e.shield]
          /\ cool' = [i \in {0} |-> out.e.cool]
          /\ fxLabel' = [i \in {0} |-> IF out.label # NoLabel THEN out.label
                                       ELSE fxLabel[0]]
          /\ ev' = [i \in {0} |-> out.label]
    /\ ticks' = ticks + 1
    /\ UNCHANGED <<frame, winnerIdx, track>>

NextEvent == \E d \in TickDraws : MaybeEvent(d) /\ UNCHANGED <<ledger, last, orch, chat>>

SpecEvent == InitEvent /\ [][NextEvent]_vars

(***************************************************************************)
(* The race cycle of the game client (game.jsx): betting, racing,          *)
(* cooldown, and the recovery from an error.  A request of the client      *)
(* takes two steps, between which the timers, the other clients of the     *)
(* ledger and the unmount may run: the ledger handles the request and      *)
(* sends its answer (orch.answer holds it while it is on its way), then    *)
(* fetch delivers the answer and the async function that awaits it         *)
(* resumes.  Or fetch throws, whether the ledger has handled the request   *)
(* or not, and the answer is lost.                                         *)
(***************************************************************************)
BETTING_SECONDS == 30
COOLDOWN_SECONDS == 15

\* scheduleRecovery(delay = 5000), Math.min(delay + 2000, 15000)
RecoveryDelay == 5000
RecoveryStep == 2000
RecoveryMax == 15000

\* The functions of the cycle are those of the first render of the component:
\* the mount effect calls ensureRace and startBettingPhase of that render, and
\* every later call is made from a timer or a callback they set.  The states
\* `race` and `horses` these functions read are the ones of that render,
\* useState(null) and useState([]), whatever setRace and setHorses have
\* stored since; raceInClosure is the id of that race (0 for null),
\* horsesInClosure the length of that array.
raceInClosure == 0
horsesInClosure == 0

\* const trackLen = race?.track_len || 120
FallbackTrackLen == 120

\* const N = horses.length || 8
FallbackEntrants == 8

runAnimationTrackLen(rs) ==
    IF raceInClosure # 0 /\ rs[raceInClosure].track_len # 0
    THEN rs[raceInClosure].track_len
    ELSE FallbackTrackLen

runAnimationN ==
    IF horsesInClosure # 0 THEN horsesInClosure ELSE FallbackEntrants

\* the async function has returned
idle(o) == [o EXCEPT !.flow = "none", !.step = "none", !.resolvedWinner = NoWinner]

\* the await of fetch has ended: the answer, if one was on its way, has been
\* taken or is lost
resumed(o) == [o EXCEPT !.answer = NoAnswer]

\* a clearCountdownTimers that leaves the interval of the tick-down running
clearCountdownTimersStageOnly(o) ==
    [o EXCEPT !.timers = {t \in @ : t.id # o.countdownTimersRef.stage},
              !.countdownTimersRef = [tick |-> 0, stage |-> 0]]

\* clearInterval and clearTimeout of the ids the ref holds, which it then
\* forgets
clearCountdownTimers(o) ==
    [o EXCEPT !.timers = {t \in @ : /\ t.id # o.countdownTimersRef.tick
                                    /\ t.id # o.countdownTimersRef.stage},
              !.countdownTimersRef = [tick |-> 0, stage |-> 0]]

\* the id setInterval or setTimeout returns: one that no timer has
NewTimerId(ts) ==
    CHOOSE n \in 1 .. Cardinality(ts) + 1 : \A t \in ts : t.id # n

\* the completion the timeout of the ref is set for, "none" when the ref
\* holds none or window does not hold it any more
pendingOnComplete(o) ==
    IF \E t \in o.timers : ~t.tick /\ t.id = o.countdownTimersRef.stage
    THEN (CHOOSE t \in o.timers :
              ~t.tick /\ t.id = o.countdownTimersRef.stage).onComplete
    ELSE "none"

\* startCountdown(seconds, onComplete) for seconds > 0, which both
\* BETTING_SECONDS and COOLDOWN_SECONDS are: the interval of the tick-down and
\* the timeout of onComplete are set
startCountdown(o, seconds, onComplete) ==
    LET c == clearCountdownTimers(o)
        tick == NewTimerId(c.timers)
        interval == [id |-> tick, tick |-> TRUE, onComplete |-> "none"]
        stage == NewTimerId(c.timers \cup {interval})
        timeout == [id |-> stage, tick |-> FALSE, onComplete |-> onComplete]
    IN  IF seconds > 0
        THEN [c EXCEPT !.countdown = seconds,
                       !.timers = @ \cup {interval, timeout},
                       !.countdownTimersRef = [tick |-> tick, stage |-> stage]]
        ELSE [c EXCEPT !.countdown = NoCountdown]

scheduleRecovery(o, delay) ==
    IF o.recovery # "none" THEN o
    ELSE [o EXCEPT !.recovery = "timer", !.delay = delay]

startBettingPhase(o, horseCount) ==
    IF horseCount = 0 THEN o
    ELSE startCountdown([o EXCEPT !.recovery = "none", !.delay = 0,
                                  !.running = FALSE, !.stage = "betting"],
                        BETTING_SECONDS, "betting")

startCooldown(o) ==
    startCountdown([o EXCEPT !.running = FALSE, !.stage = "cooldown"],
                   COOLDOWN_SECONDS, "cooldown")

\* a beginRace without the guard of runningRef
beginRaceUnguarded(o) ==
    IF raceInClosure # 0
    THEN [clearCountdownTimers(o) EXCEPT !.running = TRUE,
                                         !.countdown = NoCountdown,
                                         !.flow = "begin", !.step = "start"]
    ELSE [o EXCEPT !.flow = "begin", !.step = "open"]

\* beginRace up to its first await
beginRace(o) ==
    IF o.running THEN o
    ELSE IF raceInClosure # 0
    THEN [clearCountdownTimers(o) EXCEPT !.running = TRUE,
                                         !.countdown = NoCountdown,
                                         !.flow = "begin", !.step = "start"]
    ELSE [o EXCEPT !.flow = "begin", !.step = "open"]

\* the functions that await ensureRace
EnsureFlows == {"boot", "begin", "cooldown", "recover"}

\* what the function that awaits ensureRace does when it returns info: the
\* mount effect and the completion of the cooldown start the betting phase,
\* the recovery callback clears recoveryRef first, beginRace goes on to lock
\* betting
Acquired(o) ==
    CASE o.flow = "boot" ->
            IF o.active THEN startBettingPhase(idle(o), o.horses) ELSE idle(o)
      [] o.flow = "cooldown" ->
            startBettingPhase(idle(o), o.horses)
      [] o.flow = "recover" ->
            startBettingPhase([idle(o) EXCEPT !.recovery = "none", !.delay = 0],
                              o.horses)
      [] o.flow = "begin" ->
            [clearCountdownTimers(o) EXCEPT !.running = TRUE,
                                            !.countdown = NoCountdown,
                                            !.step = "start"]

\* what it does when ensureRace returns null
NotAcquired(o) ==
    CASE o.flow = "boot" ->
            IF o.active
            THEN scheduleRecovery([idle(o) EXCEPT !.stage = "error"],
                                  RecoveryDelay)
            ELSE idle(o)
      [] o.flow = "cooldown" ->
            scheduleRecovery([idle(o) EXCEPT !.stage = "error"], RecoveryDelay)
      [] o.flow = "recover" ->
            scheduleRecovery([idle(o) EXCEPT !.recovery = "none"],
                             IF o.delay + RecoveryStep < RecoveryMax
                             THEN o.delay + RecoveryStep ELSE RecoveryMax)
      [] o.flow = "begin" ->
            [idle(o) EXCEPT !.stage = "error"]

\* refreshOpenRace after the answer `race_id` (0: no race) with `n` horses,
\* or after a throw (0, 0), as the first or the last call of ensureRace
refreshOpenRace(race_id, n) ==
    LET o == [resumed(orch) EXCEPT !.race = race_id, !.horses = n]
    IN  /\ orch' = IF race_id # 0 THEN Acquired(o)
                   ELSE IF orch.step = "open" THEN [o EXCEPT !.step = "create"]
                   ELSE NotAcquired(o)
        /\ pos' = [i \in 0 .. n - 1 |-> Whole(0)]
        /\ ev' = [i \in 0 .. n - 1 |-> NoLabel]
        /\ winnerIdx' = IF race_id # 0 THEN NoWinner ELSE winnerIdx
        /\ UNCHANGED <<vel, shield, cool, fxLabel, frame, track, ticks>>

\* the ledger handles GET /race/open of getOpenRace
GetOpenRaceHandled ==
    /\ orch.flow \in EnsureFlows /\ orch.step \in {"open", "reopen"}
    /\ orch.answer = NoAnswer
    /\ GetRaceOpen
    /\ orch' = [orch EXCEPT !.answer = last']
    /\ UNCHANGED <<engine, chat>>

\* the answer arrives: const info = await getOpenRace() and what follows
RefreshOpenRaceAnswered ==
    /\ orch.flow \in EnsureFlows /\ orch.step \in {"open", "reopen"}
    /\ orch.answer # NoAnswer
    /\ refreshOpenRace(orch.answer.race_id, Len(orch.answer.horses))
    /\ UNCHANGED <<ledger, last, chat>>

RefreshOpenRaceThrows ==
    /\ orch.flow \in EnsureFlows /\ orch.step \in {"open", "reopen"}
    /\ refreshOpenRace(0, 0)
    /\ UNCHANGED <<ledger, last, chat>>

\* the ledger handles POST /race/new of createRace
CreateRaceHandled ==
    /\ orch.flow \in EnsureFlows /\ orch.step = "create"
    /\ orch.answer = NoAnswer
    /\ \E trackLen \in TrackLens : PostRaceNew(trackLen)
    /\ orch' = [orch EXCEPT !.answer = last']
    /\ UNCHANGED <<engine, chat>>

\* the answer arrives: const created = await createRace().catch(() => null)
CreateRaceAnswered ==
    /\ orch.flow \in EnsureFlows /\ orch.step = "create"
    /\ orch.answer # NoAnswer
    /\ orch' = IF orch.answer.ok THEN [resumed(orch) EXCEPT !.step = "reopen"]
               ELSE NotAcquired(resumed(orch))
    /\ UNCHANGED <<ledger, last, engine, chat>>

CreateRaceThrows ==
    /\ orch.flow \in EnsureFlows /\ orch.step = "create"
    /\ orch' = NotAcquired(resumed(orch))
    /\ UNCHANGED <<ledger, last, engine, chat>>

\* the start velocities of the races of the cycle: all entrants at the
\* lowest, or one of the first two ahead of the others
CycleBases ==
    {[i \in 0 .. runAnimationN - 1 |-> 0]}
    \cup {[i \in 0 .. runAnimationN - 1 |-> IF i = k THEN 500 ELSE 0] : k \in 0 .. 1}

\* the draws of a tick of these races: an entrant out of cooldown draws a
\* surge
CycleDraws ==
    {[i \in DOMAIN pos |->
         IF cool[i] > 0
         THEN [accel |-> 500, chance |-> CooldownDraw.chance,
               roll |-> CooldownDraw.roll, jump |-> CooldownDraw.jump]
         ELSE [accel |-> 500, chance |-> 0, roll |-> 850, jump |-> 500]]}

\* the ledger handles POST /race/start of startRace
StartRaceHandled ==
    /\ orch.flow = "begin" /\ orch.step = "start"
    /\ orch.answer = NoAnswer
    /\ PostRaceStart
    /\ orch' = [orch EXCEPT !.answer = last']
    /\ UNCHANGED <<engine, chat>>

\* beginRace after await startRace(): the answer is not looked at
StartRaceAnswered ==
    /\ orch.flow = "begin" /\ orch.step = "start"
    /\ orch.answer # NoAnswer
    /\ orch' = [idle(resumed(orch)) EXCEPT !.stage = "racing"]
    /\ \E base \in CycleBases :
          RunAnimation(runAnimationN, runAnimationTrackLen(races), base)
    /\ UNCHANGED <<ledger, last, chat>>

\* a beginRace that goes on to the race when startRace throws
StartRaceThrowsToRacing ==
    /\ orch.flow = "begin" /\ orch.step = "start"
    /\ orch' = [idle(resumed(orch)) EXCEPT !.stage = "racing"]
    /\ \E base \in CycleBases :
          RunAnimation(runAnimationN, runAnimationTrackLen(races), base)
    /\ UNCHANGED <<ledger, last, chat>>

StartRaceThrows ==
    /\ orch.flow = "begin" /\ orch.step = "start"
    /\ orch' = scheduleRecovery([idle(resumed(orch)) EXCEPT !.running = FALSE,
                                                            !.stage = "error"],
                                RecoveryDelay)
    /\ UNCHANGED <<ledger, last, engine, chat>>

\* the callback of setInterval up to await finishRace(resolvedWinner)
CycleTick ==
    /\ frame
    /\ \E ds \in CycleDraws : Tick(ds)
    /\ orch' = IF winnerIdx' # NoWinner
               THEN [orch EXCEPT !.flow = "settle", !.step = "finish",
                                 !.resolvedWinner = winnerIdx']
               ELSE orch
    /\ UNCHANGED <<ledger, last, chat>>

\* the ledger handles POST /race/finish of finishRace(resolvedWinner)
FinishRaceHandled ==
    /\ orch.flow = "settle" /\ orch.step = "finish"
    /\ orch.answer = NoAnswer
    /\ PostRaceFinish(JsInt(orch.resolvedWinner))
    /\ orch' = [orch EXCEPT !.answer = last']
    /\ UNCHANGED <<engine, chat>>

\* try { payout = await finishRace(resolvedWinner) } catch: on to
\* await refreshLeaderboard()
FinishRaceAnswered ==
    /\ orch.flow = "settle" /\ orch.step = "finish"
    /\ orch.answer # NoAnswer
    /\ orch' = [resumed(orch) EXCEPT !.step = "leaderboard"]
    /\ UNCHANGED <<ledger, last, engine, chat>>

\* a settlement whose failure is fatal, as a failure to lock betting is
FinishRaceThrowsToError ==
    /\ orch.flow = "settle" /\ orch.step = "finish"
    /\ orch' = scheduleRecovery([idle(resumed(orch)) EXCEPT !.running = FALSE,
                                                            !.stage = "error"],
                                RecoveryDelay)
    /\ UNCHANGED <<ledger, last, engine, chat>>

FinishRaceThrows ==
    /\ orch.flow = "settle" /\ orch.step = "finish"
    /\ orch' = [resumed(orch) EXCEPT !.step = "leaderboard"]
    /\ UNCHANGED <<ledger, last, engine, chat>>

\* the ledger handles GET /leaderboard of getLeaderboard
GetLeaderboardHandled ==
    /\ orch.flow = "settle" /\ orch.step = "leaderboard"
    /\ orch.answer = NoAnswer
    /\ GetLeaderboard
    /\ orch' = [orch EXCEPT !.answer = last']
    /\ UNCHANGED <<engine, chat>>

\* refreshLeaderboard catches what it throws; then startCooldown()
RefreshLeaderboardAnswered ==
    /\ orch.flow = "settle" /\ orch.step = "leaderboard"
    /\ orch.answer # NoAnswer
    /\ orch' = startCooldown(idle(resumed(orch)))
    /\ UNCHANGED <<ledger, last, engine, chat>>

RefreshLeaderboardThrows ==
    /\ orch.flow = "settle" /\ orch.step = "leaderboard"
    /\ orch' = startCooldown(idle(resumed(orch)))
    /\ UNCHANGED <<ledger, last, engine, chat>>

\* the callback of the interval of startCountdown, when it changes the
\* seconds shown
CountdownTickDown ==
    /\ \E t \in orch.timers : t.tick
    /\ orch.countdown > 0
    /\ orch' = [orch EXCEPT !.countdown = @ - 1]
    /\ UNCHANGED <<ledger, last, engine, chat>>

\* a timeout of startCountdown, which window drops as it runs its callback:
\* clearCountdownTimers, setCountdown(0), then onComplete, which is beginRace
\* after the betting phase and, after the cooldown, setCountdown(null) and
\* the acquisition of the next race
CountdownExpires ==
    /\ \E t \in orch.timers :
          /\ ~t.tick
          /\ \E o \in {clearCountdownTimers([orch EXCEPT !.timers = @ \ {t}])} :
                orch' = IF t.onComplete = "betting"
                        THEN beginRace([o EXCEPT !.countdown = 0])
                        ELSE [o EXCEPT !.countdown = NoCountdown,
                                       !.flow = "cooldown", !.step = "open"]
    /\ UNCHANGED <<ledger, last, engine, chat>>

\* the timeout of scheduleRecovery up to await ensureRace(); recoveryRef
\* keeps the id of the timer while the callback runs
RecoveryFires ==
    /\ orch.recovery = "timer"
    /\ orch' = [orch EXCEPT !.recovery = "attempt", !.flow = "recover",
                            !.step = "open"]
    /\ UNCHANGED <<ledger, last, engine, chat>>

\* the cleanups of the effects as the component unmounts: the mount effect
\* clears its flag, the intervals of the tick loop and of the countdown and
\* the timeouts of the countdown and of the recovery are cleared,
\* stateRef.current is null.  What an async function that waits for a
\* response does when it resumes is not changed by it, except for the mount
\* effect.
Unmount ==
    /\ orch.active
    /\ orch' = [clearCountdownTimers(orch) EXCEPT !.active = FALSE,
                                                  !.recovery = "none"]
    /\ frame' = FALSE
    /\ IF frame
       THEN vel' = <<>> /\ shield' = <<>> /\ cool' = <<>> /\ fxLabel' = <<>>
       ELSE UNCHANGED <<vel, shield, cool, fxLabel>>
    /\ UNCHANGED <<pos, ev, winnerIdx, track, ticks, ledger, last, chat>>

\* the ledger handles GET /leaderboard of the poll of the leaderboard:
\* refreshLeaderboard is called at the mount and then every 4000 ms, whatever
\* the cycle does, and a request it has sent is handled at any time later,
\* after the unmount too.  Its answer only feeds the table shown.
LeaderboardPollHandled == GetLeaderboard /\ UNCHANGED clients

\* POST /race/start of another client of the ledger
OtherHostStarts == PostRaceStart /\ UNCHANGED clients

\* POST /race/finish of another client of the ledger
OtherHostSettles == PostRaceFinish(JsInt(0)) /\ UNCHANGED clients

NextCycle ==
    \/ GetOpenRaceHandled
    \/ RefreshOpenRaceAnswered
    \/ RefreshOpenRaceThrows
    \/ CreateRaceHandled
    \/ CreateRaceAnswered
    \/ CreateRaceThrows
    \/ StartRaceHandled
    \/ StartRaceAnswered
    \/ StartRaceThrows
    \/ CycleTick
    \/ FinishRaceHandled
    \/ FinishRaceAnswered
    \/ FinishRaceThrows
    \/ GetLeaderboardHandled
    \/ RefreshLeaderboardAnswered
    \/ RefreshLeaderboardThrows
    \/ CountdownTickDown
    \/ CountdownExpires
    \/ RecoveryFires
    \/ LeaderboardPollHandled
    \/ OtherHostStarts
    \/ OtherHostSettles

SpecCycle == Init /\ [][NextCycle]_vars

NextUnmount ==
    \/ NextCycle
    \/ Unmount

\* the cycle of a component that unmounts at some time
SpecUnmount == Init /\ [][NextUnmount]_vars

(***************************************************************************)
(* The chat bridge (chat-bridge.js): the connection to the chat transport  *)
(* with its reconnect timer, and the commands of the messages of the chat  *)
(* and of the UI sockets, which it turns into requests to the ledger; the  *)
(* ledger handles a request some time after the bridge has sent it, and    *)
(* the connection may change in between.  The transport (PumpChatClient)   *)
(* is not part of the program: it resolves or rejects connect() and emits  *)
(* its events as it likes.  backoff is kept in 1/BackoffScale ms, which    *)
(* holds every value that the factor 1.5 gives below MAX_BACKOFF.          *)
(***************************************************************************)
BackoffScale == 16

\* the requests of the bridge that wait for the ledger at one time
MaxInFlight == 1
MAX_BACKOFF == 60000
MIN_BACKOFF == 3000

\* backoff = Math.max(backoff, 30_000) after an error that mentions 429
RateLimitBackoff == 30000

\* connectPump up to await chat.connect()
connectPump(c) ==
    IF c.connectingPump THEN c
    ELSE [c EXCEPT !.connectingPump = TRUE, !.reconnectTimer = FALSE,
                   !.timers = IF c.reconnectTimer THEN @ - 1 ELSE @,
                   !.connects = @ + 1,
                   !.link = "connecting"]

\* Math.min(Math.max(base, MIN_BACKOFF) * 1.5, MAX_BACKOFF)
nextDelay(backoff) ==
    LET base == IF backoff # 0 THEN backoff ELSE MIN_BACKOFF * BackoffScale
        floor == IF base > MIN_BACKOFF * BackoffScale THEN base
                 ELSE MIN_BACKOFF * BackoffScale
        grown == (floor * 3) \div 2
    IN  IF grown < MAX_BACKOFF * BackoffScale THEN grown
        ELSE MAX_BACKOFF * BackoffScale

\* a scheduleReconnect that sets a timer whether or not one is set
scheduleReconnectAgain(c) ==
    IF c.connectingPump THEN c
    ELSE [c EXCEPT !.backoff = nextDelay(c.backoff), !.reconnectTimer = TRUE,
                   !.timers = @ + 1]

scheduleReconnect(c) ==
    IF c.connectingPump THEN c
    ELSE IF c.reconnectTimer THEN c
    ELSE [c EXCEPT !.backoff = nextDelay(c.backoff), !.reconnectTimer = TRUE,
                   !.timers = @ + 1]

\* await chat.connect() returns; finally
ConnectResolves ==
    /\ chat.connectingPump /\ chat.link = "connecting"
    /\ chat' = [chat EXCEPT !.connectingPump = FALSE, !.connects = @ - 1,
                            !.link = "open"]
    /\ UNCHANGED <<ledger, last, engine, orch>>

\* await chat.connect() throws: catch calls scheduleReconnect, then finally
ConnectRejects ==
    /\ chat.connectingPump /\ chat.link = "connecting"
    /\ chat' = [scheduleReconnect(chat) EXCEPT !.connectingPump = FALSE,
                                               !.connects = @ - 1,
                                               !.link = "closed"]
    /\ UNCHANGED <<ledger, last, engine, orch>>

\* chat.on("connected")
ConnectedEvent ==
    /\ chat.link \in {"connecting", "open"}
    /\ chat' = [chat EXCEPT !.backoff = 0]
    /\ UNCHANGED <<ledger, last, engine, orch>>

\* chat.on("disconnected"), of a client that was connected
DisconnectedEvent ==
    /\ chat.link = "open"
    /\ chat' = scheduleReconnect([chat EXCEPT !.link = "closed"])
    /\ UNCHANGED <<ledger, last, engine, orch>>

\* chat.on("error"), with a message that mentions 429 or not
ErrorEvent(rateLimited) ==
    /\ chat.link \in {"connecting", "open"}
    /\ chat' = scheduleReconnect(
                  IF rateLimited /\ chat.backoff < RateLimitBackoff * BackoffScale
                  THEN [chat EXCEPT !.backoff = RateLimitBackoff * BackoffScale]
                  ELSE chat)
    /\ UNCHANGED <<ledger, last, engine, orch>>

\* a timeout of scheduleReconnect
ReconnectTimerFires ==
    /\ chat.timers > 0
    /\ chat' = connectPump([chat EXCEPT !.reconnectTimer = FALSE,
                                        !.timers = @ - 1])
    /\ UNCHANGED <<ledger, last, engine, orch>>

\* the commands of the model: "!bet 0 9", in which the amount becomes 1 and
\* the horse 8, "!bet 25 1", "!balance" and "!leaderboard"
Commands ==
    {[line |-> "!bet", amountDigits |-> b[1], horseDigits |-> b[2]] :
        b \in {<<0, 9>>, <<25, 1>>}}
    \cup {[line |-> l, amountDigits |-> 0, horseDigits |-> 0] :
             l \in {"!balance", "!leaderboard"}}

\* handleCommand(user, text) up to its await fetch(...): the request is sent
\* and waits for the ledger in c.requests.  What the bridge says to the chat
\* before and after is no state of the bridge.
handleCommand(c, user, command) ==
    LET amount == IF command.amountDigits > 1 THEN command.amountDigits ELSE 1
        horseHuman == IF command.horseDigits < 1 THEN 1
                      ELSE IF command.horseDigits > NumHorses THEN NumHorses
                      ELSE command.horseDigits
        horseIdx == horseHuman - 1
        request ==
            CASE command.line = "!bet" ->
                    [op |-> "bet", user |-> user, horse |-> horseIdx,
                     amount |-> amount]
              [] command.line = "!balance" ->
                    [op |-> "balance", user |-> user, horse |-> 0, amount |-> 0]
              [] command.line = "!leaderboard" ->
                    [op |-> "leaderboard", user |-> NoUser, horse |-> 0,
                     amount |-> 0]
    IN  [c EXCEPT !.requests = Append(@, request)]

\* chat.on("message") of the transport, which emits the messages of the room
\* while it is connected: const user = m?.username || "guest"
ChatMessage(username, command) ==
    /\ chat.link = "open"
    /\ Len(chat.requests) < MaxInFlight
    /\ chat' = handleCommand(chat, IF username = NoUser THEN "guest" ELSE username,
                             command)
    /\ UNCHANGED <<ledger, last, engine, orch>>

\* ws.on("message") of a socket of the UI, whatever the transport does:
\* const user = (msg.user || "you").trim() || "you"
UiSocketMessage(username, command) ==
    /\ Len(chat.requests) < MaxInFlight
    /\ chat' = handleCommand(chat, IF trim(username) = NoUser THEN "you"
                                   ELSE trim(username),
                             command)
    /\ UNCHANGED <<ledger, last, engine, orch>>

\* the ledger handles a request handleCommand has sent: POST /bet, GET
\* /balance?user= or GET /leaderboard
BridgeRequestHandled ==
    /\ \E i \in 1 .. Len(chat.requests) :
          /\ CASE chat.requests[i].op = "bet" ->
                     PostBet([user |-> chat.requests[i].user,
                              horse |-> JsInt(chat.requests[i].horse),
                              amount |-> JsInt(chat.requests[i].amount)])
                [] chat.requests[i].op = "balance" ->
                     GetBalance(chat.requests[i].user)
                [] chat.requests[i].op = "leaderboard" ->
                     GetLeaderboard
          /\ chat' = [chat EXCEPT !.requests =
                          SubSeq(@, 1, i - 1) \o SubSeq(@, i + 1, Len(@))]
    /\ UNCHANGED <<engine, orch>>

\* fetch throws before the ledger has handled the request: the catch of
\* handleCommand
BridgeRequestThrows ==
    /\ \E i \in 1 .. Len(chat.requests) :
          chat' = [chat EXCEPT !.requests =
                      SubSeq(@, 1, i - 1) \o SubSeq(@, i + 1, Len(@))]
    /\ UNCHANGED <<ledger, last, engine, orch>>

\* POST /race/new of the game client
HostCreatesRace == (\E trackLen \in TrackLens : PostRaceNew(trackLen)) /\ UNCHANGED clients

NextChat ==
    \/ ConnectResolves
    \/ ConnectRejects
    \/ ConnectedEvent
    \/ DisconnectedEvent
    \/ \E rateLimited \in BOOLEAN : ErrorEvent(rateLimited)
    \/ ReconnectTimerFires
    \/ \E username \in {"you", NoUser} : \E command \in Commands :
          ChatMessage(username, command)
    \/ \E username \in {"guest", NoUser, "  "} : \E command \in Commands :
          UiSocketMessage(username, command)
    \/ BridgeRequestHandled
    \/ BridgeRequestThrows
    \/ HostCreatesRace

SpecChat == Init /\ [][NextChat]_vars

(***************************************************************************)
(* What the claims speak of.                                               *)
(***************************************************************************)
\* the balance a request of `name` meets: that of the row, or the starting
\* balance of the row the request would create
BalanceOf(ps, name) ==
    IF findPlayer(ps, name) = 0 THEN StartBalance
    ELSE ps[findPlayer(ps, name)].balance

\* the payout rows of a race
PayoutsOf(pys, raceId) == SelectSeq(pys, LAMBDA p : p.race_id = raceId)

NoRaceIs(rs, status) == \A i \in 1 .. Len(rs) : rs[i].status # status

\* C1: under every interleaving of requests no balance is ever negative,
\* and a bet whose amount exceeds the balance of its player is rejected and
\* leaves that balance as it was.
C1_BalanceNeverNegative ==
    [][ /\ \A i \in 1 .. Len(players') : players'[i].balance >= 0
        /\ ( /\ last'.op = "bet"
             /\ last'.user # NoUser
             /\ NumberIsInteger(last'.amount)
             /\ last'.amount.n > BalanceOf(players, last'.user) )
           => /\ ~last'.ok
              /\ BalanceOf(players', last'.user) = BalanceOf(players, last'.user)
      ]_vars

\* a bet was just refused for want of balance, by a player who has bet before
C1_Witness ==
    /\ last.op = "bet" /\ last.error = "insufficient_balance"
    /\ last.amount.n > BalanceOf(players, last.user)
    /\ BalanceOf(players, last.user) < StartBalance
    /\ BalanceOf(players, last.user) >= 0

\* C2: of two bets of one player served back to back on an open race, each
\* within the balance b0 they both meet but together beyond it, the first
\* served succeeds and the second fails with insufficient_balance; the
\* balance ends at b0 minus the amount of the bet that succeeded.
C2_ConcurrentBetsOneSucceeds ==
    [][ (last'.op = "bet" /\ last'.error # "bad_input" /\ ~NoRaceIs(races, "bet"))
        => /\ last'.amount.n <= BalanceOf(players, last'.user)
              => /\ last'.ok
                 /\ BalanceOf(players', last'.user)
                      = BalanceOf(players, last'.user) - last'.amount.n
           /\ LET a1 == last.amount.n
                  a2 == last'.amount.n
                  b0 == BalanceOf(players, last.user) + a1
              IN  ( /\ last.op = "bet" /\ last.ok /\ last'.user = last.user
                    /\ a1 <= b0 /\ a2 <= b0 /\ a1 + a2 > b0 )
                  => /\ ~last'.ok
                     /\ last'.error = "insufficient_balance"
                     /\ BalanceOf(players', last'.user) = b0 - a1
      ]_vars

\* the second of two such bets was just refused: the last bet recorded is the
\* player's, on a race still open, and nothing was paid out in between
C2_Witness ==
    /\ last.op = "bet" /\ last.error = "insufficient_balance"
    /\ bets # <<>> /\ payouts = <<>>
    /\ LET b1 == bets[Len(bets)]
           b0 == players[b1.player_id].balance + b1.amount
       IN  /\ players[b1.player_id].name = last.user
           /\ races[b1.race_id].status = "bet"
           /\ b1.amount <= b0 /\ last.amount.n <= b0
           /\ b1.amount + last.amount.n > b0

\* C3: a bet that fails with insufficient_balance persists nothing: no bet
\* row, no balance change, and no player row for a player the request
\* would have created.
C3_FailedBetPersistsNothing ==
    [][ (last'.op = "bet" /\ last'.error = "insufficient_balance")
        => /\ UNCHANGED ledger
           /\ findPlayer(players, last'.user) = 0
                => findPlayer(players', last'.user) = 0
      ]_vars

\* a player without a row was just refused a bet and still has no row
C3_Witness ==
    /\ last.op = "bet" /\ last.error = "insufficient_balance"
    /\ last.user # NoUser
    /\ findPlayer(players, last.user) = 0

\* C4: for every settled race the payouts written sum to at most
\* afterHouse = floor(totalPool * (1 - houseCut)), which is at most
\* totalPool, the sum of the bets of the race; the summary of a settlement
\* reports these two values.
C4_PayoutsWithinAfterHouse ==
    /\ \A r \in 1 .. Len(races) :
          races[r].status = "done" =>
             LET total == SumAmounts(listBets(bets, r), 1)
                 after == (total * (10 - HOUSE_CUT_TENTHS)) \div 10
             IN  /\ SumAmounts(PayoutsOf(payouts, r), 1) <= after
                 /\ after <= total
    /\ (last.op = "race/finish" /\ last.ok) =>
          LET total == SumAmounts(listBets(bets, last.race_id), 1)
          IN  /\ last.result.totalPool = total
              /\ last.result.afterHouse = (total * (10 - HOUSE_CUT_TENTHS)) \div 10

\* a race was settled with a payout, and both the house cut and the floor
\* kept coins back
C4_Witness ==
    \E r \in 1 .. Len(races) :
        LET total == SumAmounts(listBets(bets, r), 1)
            paid == SumAmounts(PayoutsOf(payouts, r), 1)
        IN  /\ races[r].status = "done"
            /\ 0 < paid
            /\ paid < (total * (10 - HOUSE_CUT_TENTHS)) \div 10
            /\ Len(PayoutsOf(payouts, r)) > 1

\* the bets among wbs of player p
BetsOfPlayer(wbs, p) == SelectSeq(wbs, LAMBDA b : b.player_id = p)

\* the payout rows of race r for player p
PayoutRowsOf(pys, r, p) ==
    SelectSeq(pys, LAMBDA row : row.race_id = r /\ row.player_id = p)

\* C5: every player with winning bets in a settled race is
\* credited floor(playerWinningBetSum / winnerPool * afterHouse), the
\* player's bets on the winning slot summed before the one floor.
C5_PayoutIsFloorOfSummedBets ==
    [][ (last'.op = "race/finish" /\ last'.ok) =>
          \A w \in Winners : PostRaceFinish(w) =>
             LET r == last'.race_id
                 wbs == onWinnerBets(listBets(bets, r), w.n)
                 onWinner == SumAmounts(wbs, 1)
                 afterHouse == last'.result.afterHouse
             IN  \A p \in 1 .. Len(players) :
                    LET mine == BetsOfPlayer(wbs, p)
                        due == FloorShare(SumAmounts(mine, 1), onWinner, afterHouse)
                    IN  mine # <<>> =>
                          /\ players'[p].balance - players[p].balance = due
                          /\ PayoutRowsOf(payouts', r, p)
                               = <<[race_id |-> r, player_id |-> p, amount |-> due]>>
      ]_vars

\* C6, as stated: a second POST /race/finish right after a settlement fails
\* with AlreadySettled and changes no balance and no payout row.
C6_SecondSettleAlreadySettled ==
    [][ ( /\ last.op = "race/finish" /\ last.ok
          /\ last'.op = "race/finish" /\ last'.error # "bad_winner" )
        => /\ last'.error = "already_settled"
           /\ UNCHANGED ledger
      ]_vars

\* C6, amended: a POST /race/finish with a valid winner served while no race
\* is racing (so after the settlement of the only racing race) fails with
\* no_racing_race and changes no table; no request changes the status or
\* the payout rows of a race that is done.
C6_SecondSettleNoRacingRace ==
    [][ /\ ( /\ last'.op = "race/finish" /\ last'.error # "bad_winner"
             /\ NoRaceIs(races, "racing") )
           => /\ ~last'.ok
              /\ last'.error = "no_racing_race"
              /\ UNCHANGED ledger
        /\ \A r \in 1 .. Len(races) :
              races[r].status = "done" =>
                /\ races'[r] = races[r]
                /\ PayoutsOf(payouts', r) = PayoutsOf(payouts, r)
      ]_vars

\* a settlement was asked for again after a race was settled with payouts,
\* and was refused
C6_Witness ==
    /\ last.op = "race/finish" /\ last.error = "no_racing_race"
    /\ \E r \in 1 .. Len(races) :
          races[r].status = "done" /\ PayoutsOf(payouts, r) # <<>>

\* C7: each race is settled at most once: no two payout rows share race and
\* player, payout rows of a race are written only by the step that takes it
\* from racing to done, a balance only grows in such a step and by the one
\* payout row written for its player, and a done race stays done.
C7_SettledAtMostOnce ==
    [][ /\ \A i, j \in 1 .. Len(payouts') :
              (i # j /\ payouts'[i].race_id = payouts'[j].race_id)
                 => payouts'[i].player_id # payouts'[j].player_id
        /\ \A r \in 1 .. Len(races) :
              /\ races[r].status = "done" => races'[r].status = "done"
              /\ PayoutsOf(payouts', r) # PayoutsOf(payouts, r)
                   => /\ races[r].status = "racing"
                      /\ races'[r].status = "done"
                      /\ PayoutsOf(payouts, r) = <<>>
        /\ \A p \in 1 .. Len(players) :
              players'[p].balance > players[p].balance =>
                 \E r \in 1 .. Len(races) :
                    /\ races[r].status = "racing" /\ races'[r].status = "done"
                    /\ Len(PayoutRowsOf(payouts', r, p)) = 1
                    /\ PayoutRowsOf(payouts', r, p)[1].amount
                         = players'[p].balance - players[p].balance
      ]_vars

\* a second race was just settled while an earlier one is done with payouts
C7_Witness ==
    /\ last.op = "race/finish" /\ last.ok
    /\ PayoutsOf(payouts, last.race_id) # <<>>
    /\ \E r \in 1 .. Len(races) :
          /\ r # last.race_id
          /\ races[r].status = "done"
          /\ PayoutsOf(payouts, r) # <<>>

\* C8: at most one race is open ('bet') or racing in every reachable state:
\* a request to create a race while one is active adds no second one.
C8_SingleActiveRace ==
    Cardinality({r \in 1 .. Len(races) : races[r].status \in {"bet", "racing"}}) <= 1

\* C9: a bet row is only inserted for a race that is open when the row is
\* inserted; the bets of a race that is racing or done never change, a bet
\* served while no race is open fails with no_open_race and persists
\* nothing, and the totalPool of a settlement is the sum of all bets
\* recorded for the race.
C9_BetsOnlyOnOpenRace ==
    [][ /\ bets' # bets =>
              /\ last'.op = "bet" /\ last'.ok
              /\ Len(bets') = Len(bets) + 1
              /\ SubSeq(bets', 1, Len(bets)) = bets
              /\ races[bets'[Len(bets')].race_id].status = "bet"
        /\ \A r \in 1 .. Len(races) :
              races[r].status # "bet" => listBets(bets', r) = listBets(bets, r)
        /\ ( /\ last'.op = "bet" /\ last'.error # "bad_input"
             /\ NoRaceIs(races, "bet") )
           => /\ last'.error = "no_open_race"
              /\ UNCHANGED ledger
        /\ (last'.op = "race/finish" /\ last'.ok)
           => last'.result.totalPool = SumAmounts(listBets(bets', last'.race_id), 1)
      ]_vars

\* a bet within the balance of its player was just refused with
\* no_open_race while a race holding bets is racing
C9_Witness ==
    /\ last.op = "bet" /\ last.error = "no_open_race"
    /\ last.amount.n <= BalanceOf(players, last.user)
    /\ \E r \in 1 .. Len(races) :
          races[r].status = "racing" /\ listBets(bets, r) # <<>>

\* C10: a bet whose amount is zero, negative or no integer, or whose user is
\* missing, is rejected with bad_input and changes no table, whatever the
\* status of the races.
C10_BadBetRejected ==
    [][ ( /\ last'.op = "bet"
          /\ \/ last'.user = NoUser
             \/ ~NumberIsInteger(last'.amount)
             \/ last'.amount.n <= 0 )
        => /\ ~last'.ok
           /\ last'.error = "bad_input"
           /\ UNCHANGED ledger
      ]_vars

\* a bet of a known player with an amount of zero or less was just rejected
\* while a race was open for bets
C10_Witness ==
    /\ last.op = "bet" /\ last.error = "bad_input"
    /\ last.user # NoUser /\ findPlayer(players, last.user) # 0
    /\ NumberIsInteger(last.amount) /\ last.amount.n <= 0
    /\ ~NoRaceIs(races, "bet")

\* C11: a bet served while a race is open whose slot is an integer outside
\* 0 .. NumHorses - 1 is rejected with bad_input and changes no table, so
\* every bet row recorded holds a slot of its race.
C11_SlotOutOfRangeRejected ==
    [][ /\ \A req \in BetRequests :
              ( /\ PostBet(req)
                /\ ~NoRaceIs(races, "bet")
                /\ NumberIsInteger(req.horse)
                /\ req.horse.n \notin 0 .. NumHorses - 1 )
              => /\ last'.error = "bad_input"
                 /\ UNCHANGED ledger
        /\ \A i \in 1 .. Len(bets') :
              bets'[i].horse_slot \in 0 .. NumHorses - 1
      ]_vars

\* C12: a settlement of a race none of whose bets is on the winning slot
\* writes no payout row and changes no balance, reports onWinner = 0 and no
\* winners, and leaves the race in status done.
C12_NoWinnerPoolNoPayout ==
    [][ (last'.op = "race/finish" /\ last'.ok) =>
          \A w \in Winners :
             ( /\ PostRaceFinish(w)
               /\ \A i \in 1 .. Len(bets) :
                     bets[i].race_id = last'.race_id => bets[i].horse_slot # w.n )
             => /\ payouts' = payouts
                /\ players' = players
                /\ last'.result.onWinner = 0
                /\ last'.result.winners = <<>>
                /\ races[last'.race_id].status = "racing"
                /\ races'[last'.race_id].status = "done"
      ]_vars

\* a race holding bets was just settled without a payout: the house keeps
\* the pool
C12_Witness ==
    /\ last.op = "race/finish" /\ last.ok
    /\ last.result.totalPool > 0
    /\ last.result.onWinner = 0
    /\ races[last.race_id].status = "done"
    /\ PayoutsOf(payouts, last.race_id) = <<>>

\* C13: a settlement of a race with exactly one bet on the winning slot pays
\* the player of that bet exactly afterHouse = floor(0.9 * totalPool), in
\* one payout row, and changes no other balance; when ann and bob, both
\* from 1000, hold 100 on slot 0 and 100 on slot 1 and slot 0 wins, the
\* summary is totalPool 200, afterHouse 180, onWinner 100 with ann paid 180,
\* and the balances end at 1080 and 900.
C13_SingleWinnerTakesAfterHouse ==
    [][ (last'.op = "race/finish" /\ last'.ok) =>
          \A w \in Winners : PostRaceFinish(w) =>
             LET r == last'.race_id
                 mine == SelectSeq(bets, LAMBDA b : b.race_id = r /\ b.horse_slot = w.n)
                 total == SumAmounts(listBets(bets, r), 1)
                 after == (total * (10 - HOUSE_CUT_TENTHS)) \div 10
             IN  /\ Len(mine) = 1 =>
                      /\ \A p \in 1 .. Len(players) :
                            players'[p].balance = players[p].balance
                               + (IF p = mine[1].player_id THEN after ELSE 0)
                      /\ payouts' = Append(payouts, [race_id |-> r,
                                                     player_id |-> mine[1].player_id,
                                                     amount |-> after])
                      /\ last'.result.afterHouse = after
                 /\ ( /\ w.n = 0
                      /\ players = <<[name |-> "ann", balance |-> 900],
                                     [name |-> "bob", balance |-> 900]>>
                      /\ listBets(bets, r) =
                           <<[race_id |-> r, player_id |-> 1, horse_slot |-> 0, amount |-> 100],
                             [race_id |-> r, player_id |-> 2, horse_slot |-> 1, amount |-> 100]>> )
                    => /\ last'.result = [totalPool |-> 200, afterHouse |-> 180,
                                          onWinner |-> 100,
                                          winners |-> <<[name |-> "ann", amount |-> 180]>>]
                       /\ players' = <<[name |-> "ann", balance |-> 1080],
                                       [name |-> "bob", balance |-> 900]>>
      ]_vars

\* the scenario was just settled: ann holds 1080, bob 900, and the one payout
\* row gives ann 180
C13_Witness ==
    /\ last.op = "race/finish" /\ last.ok
    /\ last.result.totalPool = 200 /\ last.result.onWinner = 100
    /\ players = <<[name |-> "ann", balance |-> 1080],
                   [name |-> "bob", balance |-> 900]>>
    /\ bets = <<[race_id |-> 1, player_id |-> 1, horse_slot |-> 0, amount |-> 100],
                [race_id |-> 1, player_id |-> 2, horse_slot |-> 1, amount |-> 100]>>
    /\ payouts = <<[race_id |-> 1, player_id |-> 1, amount |-> 180]>>

\* the place of a status in the order 'bet' < 'racing' < 'payout' < 'done'
StatusRank(status) ==
    CASE status = "bet" -> 0
      [] status = "racing" -> 1
      [] status = "payout" -> 2
      [] status = "done" -> 3

\* C14: the status of a race only moves forward through bet, racing, payout,
\* done: no step takes a race to an earlier status, a race is created in
\* 'bet', moves from 'bet' to 'racing' only, is settled from 'racing' only
\* (through 'payout' inside the settling transaction, to 'done'), and a done
\* race keeps its status; no race row is removed.
C14_StatusForwardOnly ==
    [][ /\ Len(races') >= Len(races)
        /\ \A r \in 1 .. Len(races') :
              IF r > Len(races) THEN races'[r].status = "bet"
              ELSE /\ StatusRank(races'[r].status) >= StatusRank(races[r].status)
                   /\ races[r].status = "bet" => races'[r].status \in {"bet", "racing"}
                   /\ races[r].status = "done" => races'[r].status = "done"
                   /\ races'[r].status # races[r].status
                        => \/ /\ races[r].status = "bet"
                              /\ races' = startRaceTs(races, r)
                           \/ /\ races[r].status = "racing"
                              /\ finishRaceTs(races, r)[r].status = "payout"
                              /\ races' = setRaceStatus(finishRaceTs(races, r), "done", r)
      ]_vars

\* a race was just locked for racing while an earlier race is done
C14_Witness ==
    /\ last.op = "race/start" /\ last.ok
    /\ races[last.race_id].status = "racing"
    /\ \E r \in 1 .. Len(races) : r # last.race_id /\ races[r].status = "done"

\* C15: a POST /race/finish whose winner is no integer of 0 .. 7 fails with
\* bad_winner, also when no race is racing; one with a winner of 0 .. 7 served
\* while no race is racing fails with no_racing_race; neither changes a
\* race, a balance, a bet or a payout row.
C15_SettleRejections ==
    [][ last'.op = "race/finish" =>
          \A w \in Winners : PostRaceFinish(w) =>
             IF ~w.int \/ w.n \notin 0 .. NumHorses - 1
             THEN /\ ~last'.ok
                  /\ last'.error = "bad_winner"
                  /\ UNCHANGED ledger
             ELSE NoRaceIs(races, "racing")
                    => /\ ~last'.ok
                       /\ last'.error = "no_racing_race"
                       /\ UNCHANGED ledger
      ]_vars

\* a settlement with a bad winner was just asked for while no race was
\* racing, after a race had been settled: bad_winner is the answer
C15_Witness ==
    /\ last.op = "race/finish" /\ last.error = "bad_winner"
    /\ NoRaceIs(races, "racing")
    /\ ~NoRaceIs(races, "done")

\* C16: a successful bet of amount a by player p lowers p's balance by
\* exactly a and returns the new balance, inserts exactly one bet row
\* (latest open race, p, slot, a) after the rows there are, and leaves every
\* other player's row, every race and every payout row as they were.
C16_SuccessfulBetEffect ==
    [][ (last'.op = "bet" /\ last'.ok) =>
          \A req \in BetRequests : PostBet(req) =>
             LET open == {i \in 1 .. Len(races) : races[i].status = "bet"}
                 r == CHOOSE i \in open : \A j \in open : j <= i
                 p == findPlayer(players', req.user)
             IN  /\ open # {}
                 /\ p # 0
                 /\ players'[p].balance = BalanceOf(players, req.user) - req.amount.n
                 /\ last'.balance = players'[p].balance
                 /\ bets' = Append(bets, [race_id |-> r, player_id |-> p,
                                          horse_slot |-> req.horse.n,
                                          amount |-> req.amount.n])
                 /\ Len(players') = IF findPlayer(players, req.user) = 0
                                    THEN Len(players) + 1 ELSE Len(players)
                 /\ \A q \in 1 .. Len(players) : q # p => players'[q] = players[q]
                 /\ \A q \in 1 .. Len(players) : players'[q].name = players[q].name
                 /\ races' = races
                 /\ payouts' = payouts
      ]_vars

\* a player who had bet before just placed a second bet, on the later of
\* two open races, while another player holds a row
C16_Witness ==
    /\ last.op = "bet" /\ last.ok
    /\ Len(bets) = 2 /\ Len(players) = 2
    /\ bets[2].race_id = 2 /\ races[1].status = "bet"
    /\ players[bets[2].player_id].name = last.user
    /\ last.balance = StartBalance - bets[1].amount - bets[2].amount

\* C17: lazy player creation is idempotent.  Names stay unique; a row is
\* only ever appended, one per step, for a name without a row, by a balance
\* query (the row holds 1000) or by a bet that succeeds (created with 1000
\* and debited by the bet in the same transaction); a balance query for a
\* name that has a row leaves the table as it was and returns the row's
\* balance, and ensuring a player twice is ensuring it once.
C17_LazyPlayerCreationIdempotent ==
    [][ /\ \A i, j \in 1 .. Len(players') :
              players'[i].name = players'[j].name => i = j
        /\ Len(players') \in {Len(players), Len(players) + 1}
        /\ \A i \in 1 .. Len(players) : players'[i].name = players[i].name
        /\ Len(players') = Len(players) + 1 =>
              LET new == players'[Len(players')]
              IN  /\ findPlayer(players, new.name) = 0
                  /\ \/ /\ last'.op = "balance" /\ last'.ok
                        /\ last'.name = new.name
                        /\ new.balance = StartBalance
                     \/ /\ last'.op = "bet" /\ last'.ok
                        /\ last'.user = new.name
                        /\ new.balance = StartBalance - last'.amount.n
        /\ (last'.op = "balance" /\ last'.ok) =>
              IF findPlayer(players, last'.name) # 0
              THEN /\ players' = players
                   /\ last'.balance = players[findPlayer(players, last'.name)].balance
              ELSE /\ players' = Append(players, [name |-> last'.name,
                                                  balance |-> StartBalance])
                   /\ last'.balance = StartBalance
        /\ \A name \in Users :
              LET once == getOrCreatePlayer(players, name)
              IN  /\ getOrCreatePlayer(once, name) = once
                  /\ findPlayer(players, name) # 0 => once = players
      ]_vars

\* the balance of a player who has bet was just queried: the row is the one
\* the bet left, not a new one
C17_Witness ==
    /\ last.op = "balance" /\ last.ok
    /\ findPlayer(players, last.name) # 0
    /\ last.balance = players[findPlayer(players, last.name)].balance
    /\ last.balance < StartBalance
    /\ Len(players) = 2

\* C18: the winners list of a settlement summary holds exactly one entry
\* per player credited, with the name of the player and the amount of the
\* player's payout row, and is sorted by amount in descending order.
C18_WinnersOnePerPlayerSortedDesc ==
    [][ (last'.op = "race/finish" /\ last'.ok) =>
          LET ws == last'.result.winners
              rows == PayoutsOf(payouts', last'.race_id)
          IN  /\ Len(ws) = Len(rows)
              /\ \A i, j \in 1 .. Len(ws) :
                    /\ i < j => ws[i].amount >= ws[j].amount
                    /\ ws[i].name = ws[j].name => i = j
              /\ \A k \in 1 .. Len(rows) :
                    \E i \in 1 .. Len(ws) :
                       /\ ws[i].name = players[rows[k].player_id].name
                       /\ ws[i].amount = rows[k].amount
              /\ \A p \in 1 .. Len(players) :
                    players'[p].balance # players[p].balance
                       => \E i \in 1 .. Len(ws) :
                             /\ ws[i].name = players[p].name
                             /\ ws[i].amount = players'[p].balance - players[p].balance
      ]_vars

\* three players were just paid, and the summary lists them in another
\* order than the payout rows were written in
C18_Witness ==
    /\ last.op = "race/finish" /\ last.ok
    /\ Len(last.result.winners) = 3
    /\ Len(payouts) = 3
    /\ payouts[1].amount < payouts[2].amount
    /\ last.result.winners[1].amount > last.result.winners[3].amount

\* the constant warm-up the termination bound of the specification allows,
\* in ticks
WarmupTicks == 1

\* C19: the tick loop runs at most trackLength / minVel ticks plus the
\* warm-up: as long as the loop runs, and in the tick that finds the winner,
\* the ticks run, less the warm-up, times MIN_VEL do not exceed the track.
C19_TicksWithinBound ==
    (ticks - WarmupTicks) * MIN_VEL <= track * Scale

\* C20: a tick of the running loop starts with no winner and no entrant at
\* the track length; it declares a winner exactly when some entrant is at or
\* past the track length after it, and the winner is the lowest index among
\* those entrants, whatever the others reached in the same tick.
C20_WinnerFirstCrossingLowestIndex ==
    [][ (frame /\ ticks' = ticks + 1) =>
          /\ winnerIdx = NoWinner
          /\ \A i \in DOMAIN pos : Less(pos[i], Whole(track))
          /\ (winnerIdx' # NoWinner) <=>
                (\E i \in DOMAIN pos' : ~Less(pos'[i], Whole(track')))
          /\ (frame' <=> winnerIdx' = NoWinner)
          /\ winnerIdx' # NoWinner =>
                /\ winnerIdx' \in DOMAIN pos'
                /\ ~Less(pos'[winnerIdx'], Whole(track'))
                /\ \A j \in DOMAIN pos' :
                      ~Less(pos'[j], Whole(track')) => winnerIdx' <= j
      ]_vars

\* the loop has stopped after more than one tick with entrant 0 the winner,
\* and entrant 1 reached the track length in the same tick
C20_Witness ==
    /\ ~frame /\ ticks > 1
    /\ DOMAIN pos = {0, 1}
    /\ winnerIdx = 0
    /\ ~Less(pos[0], Whole(track)) /\ ~Less(pos[1], Whole(track))

\* C21: the positions a tick publishes lie within [0, trackLength], and none
\* is below the position of the same entrant before the tick, warp and surge
\* jumps included.
C21_PositionsBoundedMonotone ==
    [][ ticks' = ticks + 1 =>
          \A i \in DOMAIN pos' :
              /\ ~Less(pos'[i], Whole(0))
              /\ ~Less(Whole(track'), pos'[i])
              /\ ~Less(pos'[i], pos[i])
      ]_vars

\* a surge carried the entrant past the end of the track in a later tick of
\* the race, and the position published is the track length
C21_Witness ==
    /\ ~frame /\ ticks > 1
    /\ DOMAIN pos = {0}
    /\ ev[0] = "rocket"
    /\ pos[0] = Whole(track)

\* C22: the velocity of every entrant of the running loop, which is the
\* velocity its position was last advanced by, lies within
\* [MIN_VEL, MAX_VEL].
C22_VelocityWithinBounds ==
    \A i \in DOMAIN vel : /\ ~Less(vel[i], Hundredths[MIN_VEL])
                           /\ ~Less(Hundredths[MAX_VEL], vel[i])

\* C23: a tick in which an event fires for an entrant finds its cooldown at
\* 0 and leaves it at EVENT_COOLDOWN_TICKS (6); a tick that finds the
\* cooldown above 0 fires no event for the entrant and takes one off the
\* cooldown.  So the six ticks after an event fire none, and two events of
\* one entrant are at least 7 ticks apart.
C23_EventCooldown ==
    [][ ticks' = ticks + 1 =>
          \A i \in DOMAIN pos :
              /\ ev'[i] # NoLabel =>
                    /\ cool[i] = 0
                    /\ frame' => cool'[i] = EVENT_COOLDOWN_TICKS
              /\ cool[i] > 0 =>
                    /\ ev'[i] = NoLabel
                    /\ frame' => cool'[i] = cool[i] - 1
      ]_vars

\* the entrant stumbled in tick 1 and again in tick 8, the first tick after
\* the cooldown: 0.12 + 6 * 0.25 + 0.12 in 8 ticks take two stumbles
C23_Witness ==
    /\ frame /\ ticks = EVENT_COOLDOWN_TICKS + 2
    /\ DOMAIN pos = {0}
    /\ ev[0] = "cross"
    /\ cool[0] = EVENT_COOLDOWN_TICKS
    /\ Less(pos[0], Hundredths[2 * STUMBLE_VEL + EVENT_COOLDOWN_TICKS * MIN_VEL + 1])

\* the draws of a slow and of a stumble event
NegativeDraws ==
    {d \in TickDraws :
        /\ d.chance < EVENTS_CHANCE_PER_TICK
        /\ bandOf[d.roll] # 0
        /\ EVENT_BANDS[bandOf[d.roll]].key \in {"slow", "stumble"}}

\* C24: for an entrant with shield ticks left (and no cooldown, so that an
\* event is drawn at all), maybeEventFor with the draws of a slow or a
\* stumble leaves the velocity as it was and returns the shield label.
C24_ShieldBlocksNegativeEvent ==
    \A i \in DOMAIN vel :
        (shield[i] > 0 /\ cool[i] = 0) =>
            \A d \in NegativeDraws :
                LET out == maybeEventFor([pos |-> pos[i], vel |-> vel[i],
                                          shield |-> shield[i], cool |-> cool[i]], d)
                IN  /\ out.e.vel = vel[i]
                    /\ out.label = SHIELD_ICON
                    /\ out.label \notin {"snail", "cross"}

\* a call has returned the shield label although the shield was not renewed
\* (a shield event leaves SHIELD_DURATION_TICKS): a slow or stumble was
\* blocked, at the highest velocity, which it left alone
C24_Witness ==
    /\ ticks = 1
    /\ ev[0] = SHIELD_ICON
    /\ cool[0] = EVENT_COOLDOWN_TICKS
    /\ shield[0] \in 1 .. SHIELD_DURATION_TICKS - 1
    /\ vel[0] = Hundredths[MAX_VEL]

\* the velocities the jitter of a tick can give an entrant of velocity v
Jittered(v) ==
    {jitter([vel |-> v], [accel |-> a]).vel : a \in AccelDraws}

\* C25: an entrant whose last event was the shield event (its label is the
\* last one kept for the entrant) has its next slow or stumble nullified:
\* the tick that draws it leaves the velocity as the jitter of the tick made
\* it.
C25_ShieldNullifiesNextNegative ==
    [][ (ticks' = ticks + 1 /\ frame') =>
          \A i \in DOMAIN pos :
              (fxLabel[i] = SHIELD_ICON /\ ev'[i] \in {"snail", "cross"}) =>
                  vel'[i] \in Jittered(vel[i])
      ]_vars

\* C26: when beginRace's request to lock betting ends without a race locked
\* (fetch threw before the ledger answered, or the answer of the ledger that
\* is on its way is an error such as no_open_race), the stage becomes "error"
\* and no simulation is started.
C26_LockFailureGoesToError ==
    [][ ( /\ orch.flow = "begin" /\ orch.step = "start"
          /\ orch'.flow # "begin"
          /\ (orch.answer = NoAnswer \/ ~orch.answer.ok) ) =>
            (orch'.stage = "error" /\ ~frame')
      ]_vars

\* C27: from the tick that finds the winner on, the settlement runs its
\* course whatever its requests meet: the request to settle, answered (ok or
\* an error) or thrown, leads to the refresh of the leaderboard with the
\* stage still "racing", and the end of that refresh leads to stage
\* "cooldown" with the cooldown countdown started; no other change of the
\* cycle happens meanwhile but the ledger answering these two requests, so
\* the stage never becomes "error".
C27_SettlementAlwaysLeadsToCooldown ==
    [][ orch.flow = "settle" =>
          \/ orch' = orch
          \/ /\ orch.answer = NoAnswer
             /\ orch' = [orch EXCEPT !.answer = last']
             /\ last'.op = IF orch.step = "finish" THEN "race/finish"
                           ELSE "leaderboard"
          \/ /\ orch.step = "finish"
             /\ orch' = [resumed(orch) EXCEPT !.step = "leaderboard"]
             /\ orch'.stage = "racing"
          \/ /\ orch.step = "leaderboard"
             /\ orch'.stage = "cooldown"
             /\ pendingOnComplete(orch') = "cooldown"
             /\ orch'.flow = "none"
             /\ ~orch'.running
      ]_vars

\* the cooldown runs while the race the simulation has run is still
\* "racing" in the ledger: the request to settle it threw
C27_Witness ==
    /\ orch.stage = "cooldown" /\ pendingOnComplete(orch) = "cooldown"
    /\ winnerIdx # NoWinner
    /\ \E r \in DOMAIN races : races[r].status = "racing"

\* C28: whenever the stage is "error", the recovery timer is set: it waits,
\* or its callback is running an attempt to acquire a race.
C28_ErrorHasRecoveryScheduled ==
    orch.stage = "error" => orch.recovery \in {"timer", "attempt"}

\* C29: the request to settle is issued by the tick that finds the winner and
\* by no other step; that tick cancels the interval and the request carries
\* the winner it found, an entrant at the track length; while the
\* settlement runs, and while the cooldown countdown runs after it, no loop
\* is running and the positions stay as that tick left them.
C29_WinnerTickSettlesOnce ==
    [][ /\ (orch'.step = "finish" /\ orch.step # "finish") <=> (frame /\ ~frame')
        /\ (frame /\ ~frame') =>
              /\ ticks' = ticks + 1
              /\ winnerIdx' # NoWinner
              /\ ~Less(pos'[winnerIdx'], Whole(track'))
              /\ orch'.flow = "settle"
              /\ orch'.resolvedWinner = winnerIdx'
        /\ (orch.flow = "settle" \/ pendingOnComplete(orch) = "cooldown") =>
              /\ ~frame /\ ~frame'
              /\ pos' = pos
              /\ winnerIdx' = winnerIdx
        /\ orch.flow = "settle" => orch.resolvedWinner = winnerIdx
      ]_vars

\* the request to settle is in flight for entrant 1, the winner, with
\* entrant 0 short of the track length
C29_Witness ==
    /\ orch.flow = "settle" /\ orch.step = "finish"
    /\ ~frame
    /\ orch.resolvedWinner = 1
    /\ ~Less(pos[1], Whole(track)) /\ Less(pos[0], Whole(track))

\* C30: the bridge is never left disconnected with nothing under way: the
\* transport is connected, or the reconnect timer is set, or connectPump is
\* in progress.
C30_ReconnectAlwaysScheduled ==
    \/ chat.link = "open"
    \/ chat.reconnectTimer
    \/ chat.connectingPump

(***************************************************************************)
(* C31: the stage of the game client becomes racing only from betting and  *)
(* only in the step in which the answer of the ledger to the request to    *)
(* lock betting (POST /race/start, sent by beginRace) reaches beginRace;   *)
(* the tick loop of the simulation is started only in that step; and the   *)
(* stage becomes cooldown only from racing.                                *)
(***************************************************************************)
C31_RacingOnlyAfterLock ==
    [][ /\ (orch'.stage = "racing" /\ orch.stage # "racing") =>
               /\ orch.stage = "betting"
               /\ orch.flow = "begin" /\ orch.step = "start"
               /\ orch.answer.op = "race/start"
        /\ (frame' /\ ~frame) =>
               /\ orch'.stage = "racing"
               /\ orch.flow = "begin" /\ orch.step = "start"
               /\ orch.answer.op = "race/start"
        /\ (orch'.stage = "cooldown" /\ orch.stage # "cooldown") =>
               orch.stage = "racing" ]_vars

\* the betting of a race has been locked and its simulation runs
C31_Witness ==
    /\ orch.stage = "racing" /\ frame /\ ticks > 0
    /\ last.op = "race/start" /\ last.ok
    /\ \E r \in 1 .. Len(races) : races[r].status = "racing"

(***************************************************************************)
(* C32: of the countdowns of the game client at most one is pending: the   *)
(* timers of the countdowns that window holds are the interval and the     *)
(* timeout the ref holds, set together by one startCountdown, or none, so  *)
(* that a countdown that clearCountdownTimers or a new startCountdown has  *)
(* cancelled has neither a tick-down nor a completion left to run.  The    *)
(* completion of a countdown runs at most once: the step that runs it      *)
(* finds its timeout pending and leaves no timer of any countdown, and a   *)
(* phase is left by a completion (beginRace after betting, the next        *)
(* acquisition after the cooldown) in such a step only.                    *)
(***************************************************************************)
C32_CountdownFiresAtMostOnce ==
    /\ [](/\ \A t \in orch.timers :
                t.id = IF t.tick THEN orch.countdownTimersRef.tick
                       ELSE orch.countdownTimersRef.stage
          /\ \A t, u \in orch.timers : t.tick = u.tick => t = u
          /\ \A t \in orch.timers : \E u \in orch.timers : u.tick # t.tick
          /\ orch.timers = {} => orch.countdownTimersRef = [tick |-> 0, stage |-> 0])
    /\ [][ /\ (orch'.flow = "begin" /\ orch.flow # "begin") =>
                 /\ pendingOnComplete(orch) = "betting"
                 /\ orch'.timers = {}
           /\ (orch'.flow = "cooldown" /\ orch.flow # "cooldown") =>
                 /\ pendingOnComplete(orch) = "cooldown"
                 /\ orch'.timers = {}
           /\ (orch'.countdown < orch.countdown /\ orch'.countdown # NoCountdown) =>
                 orch.timers # {}
         ]_vars

\* the component has unmounted in the betting phase with seconds left to
\* bet: the countdown was cancelled before its expiry
C32_Witness ==
    /\ ~orch.active
    /\ orch.stage = "betting" /\ orch.flow = "none"
    /\ orch.countdown > 0 /\ orch.countdown < BETTING_SECONDS
    /\ orch.timers = {}

(***************************************************************************)
(* C33: the game client requests the creation of a race (POST /race/new,   *)
(* sent by ensureRace) only when the ledger holds no race whose status is  *)
(* open ("bet") or "racing".                                               *)
(***************************************************************************)
C33_CreatesOnlyWithoutActiveRace ==
    [][ (orch.step = "create" /\ Len(races') > Len(races)) =>
            \A r \in DOMAIN races : races[r].status \notin {"bet", "racing"}
      ]_vars

(***************************************************************************)
(* C34: over consecutive failed attempts of the recovery the delay of the  *)
(* retry grows exponentially from 5000 ms and never exceeds the maximum of *)
(* 15000 ms: every delay is to the one before as the second delay is to    *)
(* the first, or is the maximum; and when a race is acquired no recovery   *)
(* timer is left pending.                                                  *)
(***************************************************************************)
C34_RecoveryDelayExponential ==
    [][ /\ (orch.recovery = "none" /\ orch'.recovery = "timer") =>
                orch'.delay = RecoveryDelay
        /\ (orch.recovery = "attempt" /\ orch'.recovery = "timer") =>
                /\ orch'.delay > orch.delay \/ orch'.delay = RecoveryMax
                /\ orch'.delay <= RecoveryMax
                /\ \/ orch'.delay * RecoveryDelay =
                          orch.delay * (RecoveryDelay + RecoveryStep)
                   \/ orch'.delay = RecoveryMax
        /\ (/\ orch.flow \in EnsureFlows /\ orch.step \in {"open", "reopen"}
            /\ orch.answer # NoAnswer /\ orch'.answer = NoAnswer
            /\ orch'.race # 0) =>
                orch'.recovery = "none"
      ]_vars

(***************************************************************************)
(* C35: while the simulation of a race runs, its finish line (the track    *)
(* length the positions are clamped to and the winner is found at) is the  *)
(* track_len of the race the game client acquired from the ledger for this *)
(* run, and it simulates as many entrants as that race has.                *)
(***************************************************************************)
C35_FinishLineIsTrackLenOfRace ==
    frame =>
        /\ orch.race \in DOMAIN races
        /\ track = races[orch.race].track_len
        /\ DOMAIN pos = 0 .. orch.horses - 1

(***************************************************************************)
(* C36: while the simulation runs, an entrant whose event cooldown is 0 at *)
(* the start of a tick, the only entrants maybeEventFor rolls an event     *)
(* for, has no shield left; and the branch of slow and stumble that a      *)
(* shield blocks is never taken: a tick that returns the shield icon for   *)
(* an entrant finds it without a shield and is a shield event, which       *)
(* leaves it the full shield less the decay of that tick.                  *)
(***************************************************************************)
C36_EligibleEntrantHasNoShield ==
    /\ [](frame => \A i \in DOMAIN pos : cool[i] = 0 => shield[i] = 0)
    /\ [][ (ticks' = ticks + 1 /\ frame') =>
              \A i \in DOMAIN pos :
                  ev'[i] = SHIELD_ICON =>
                      /\ shield[i] = 0
                      /\ shield'[i] >= SHIELD_DURATION_TICKS - 1
         ]_vars

\* an entrant that took a shield is eligible for an event again, the shield
\* gone
C36_Witness ==
    /\ frame /\ ticks > EVENT_COOLDOWN_TICKS
    /\ fxLabel[0] = SHIELD_ICON
    /\ cool[0] = 0 /\ shield[0] = 0

\* the sum of the balances of the player rows from row i on
RECURSIVE SumBalances(_, _)
SumBalances(ps, i) ==
    IF i > Len(ps) THEN 0 ELSE ps[i].balance + SumBalances(ps, i + 1)

(***************************************************************************)
(* C37: the ledger never creates currency: the balances of all player      *)
(* rows add up to the 1000 coins every row starts with, less all the bets  *)
(* placed, plus all the payouts credited, and to no more than 1000 coins   *)
(* per row.                                                                *)
(***************************************************************************)
C37_CurrencyNeverCreated ==
    /\ SumBalances(players, 1) <= StartBalance * Len(players)
    /\ SumBalances(players, 1) =
           StartBalance * Len(players) - SumAmounts(bets, 1)
               + SumAmounts(payouts, 1)

\* two players have bet, a settlement has paid one of them, and the house
\* cut has taken coins out
C37_Witness ==
    /\ Len(players) = 2 /\ Len(bets) = 2
    /\ SumAmounts(payouts, 1) > 0
    /\ \E i \in 1 .. Len(players) : players[i].balance > StartBalance
    /\ SumBalances(players, 1) < StartBalance * Len(players)

(***************************************************************************)
(* C38: the tick loop of the simulation is active only in stage "racing"   *)
(* with runningRef set, never in "loading", "betting", "cooldown" or       *)
(* "error"; a loop is started only when none is active, so at most one is; *)
(* once the winner is found the loop is cleared and the state of the       *)
(* simulation (velocities, shields, cooldowns, labels) is discarded; and a *)
(* beginRace called while a race is running changes nothing.               *)
(***************************************************************************)
C38_OneTickLoopOnlyWhileRacing ==
    /\ [](frame => orch.stage = "racing" /\ orch.running)
    /\ [](orch.flow = "begin" => ~frame)
    /\ []((~frame /\ winnerIdx # NoWinner) =>
              vel = <<>> /\ shield = <<>> /\ cool = <<>> /\ fxLabel = <<>>)
    /\ [](orch.running => beginRace(orch) = orch)
    /\ [][ (frame /\ ~frame') => winnerIdx' # NoWinner ]_vars

\* the winner has been found: the loop is cleared and its state discarded,
\* while the settlement goes on in stage "racing"
C38_Witness ==
    /\ orch.stage = "racing" /\ orch.running /\ orch.flow = "settle"
    /\ ~frame /\ winnerIdx # NoWinner /\ ticks > 1
    /\ vel = <<>>

(***************************************************************************)
(* C39: in the chat bridge at most one timeout of scheduleReconnect is     *)
(* pending, the one reconnectTimer holds, and at most one call of          *)
(* connectPump waits for chat.connect(), the one connectingPump stands     *)
(* for; scheduleReconnect called while either is the case changes          *)
(* nothing; a timer is set only when neither is, with a delay (before the  *)
(* jitter) within [4500, 60000] ms; the backoff decreases only by the      *)
(* reset of a connected event, and only the first delay after a reset or   *)
(* after the start of the bridge is the minimum.                           *)
(***************************************************************************)
C39_SingleReconnectBoundedDelay ==
    /\ [](/\ chat.timers <= 1 /\ chat.connects <= 1
          /\ chat.reconnectTimer <=> chat.timers = 1
          /\ chat.connectingPump <=> chat.connects = 1
          /\ (chat.connectingPump \/ chat.reconnectTimer) =>
                 scheduleReconnect(chat) = chat)
    /\ [][ /\ chat'.timers > chat.timers =>
                 /\ ~chat.connectingPump /\ ~chat.reconnectTimer
                 /\ 2 * chat'.backoff >= 3 * MIN_BACKOFF * BackoffScale
                 /\ chat'.backoff <= MAX_BACKOFF * BackoffScale
                 /\ 2 * chat'.backoff = 3 * MIN_BACKOFF * BackoffScale =>
                        chat.backoff = 0
           /\ chat'.backoff < chat.backoff =>
                 chat' = [chat EXCEPT !.backoff = 0]
         ]_vars

\* the connection is lost and the timer is set for the maximum delay
C39_Witness ==
    /\ chat.link = "closed" /\ ~chat.connectingPump
    /\ chat.reconnectTimer /\ chat.timers = 1
    /\ chat.backoff = MAX_BACKOFF * BackoffScale

====
